---- MODULE Spec2Model ----
(***************************************************************************)
(* aioqbt: the HTTP request/retry engine of APIClient                      *)
(* (src/src/aioqbt/client.py, src/src/aioqbt/exc.py).                      *)
(*                                                                         *)
(* Time is counted in milliseconds: retry_delay = 5 (seconds) is 5000 and  *)
(* the test's retry_delay = 1/1000 is 1.  Text is a sequence of code       *)
(* points, bytes a sequence of 0..255, a header value a sequence of        *)
(* one-character strings.                                                  *)
(***************************************************************************)
EXTENDS Integers, Sequences, FiniteSets, TLC

VARIABLES
    http,            \* APIClient._http: "open" (a ClientSession) or "None"
    pc,              \* position of the request() coroutine
    method,          \* request(): method
    arg_max_attempts,\* request(): max_attempts as passed by the caller
    max_attempts,    \* request(): local max_attempts after line 213-216
    retry_delay,     \* request(): retry_delay, in ms
    attempt_count,   \* request(): local attempt_count
    resp,            \* request(): local resp (None or a response)
    resp_body,       \* request(): local resp_body (bytes)
    last_exc,        \* request(): local last_exc
    sent,            \* number of HTTP requests handed to the session
    sleeps,          \* durations (ms) passed to asyncio.sleep, in order
    trace,           \* what the server answered to each attempt, in order
    outcome,         \* how request() resolved
    open_resps,      \* responses opened by request() and not yet released
    session,         \* the aiohttp.ClientSession: "open" or "closed"
    session_closes,  \* number of ClientSession.close() calls
    noop_closes,     \* number of close() calls that found the client closed
    http_owner,      \* APIClient._http_owner
    logout_when_close, \* APIClient._logout_when_close
    groups,          \* cached API groups: _client_ref of each, or "absent"
    cpc,             \* position of the close() coroutine
    close_exc,       \* the exception close() raised, or "None"
    wpc,             \* position of request_text()/request_json()
    wexc,            \* the exception request_text()/request_json() raised
    api,             \* the method the caller invoked last
    caller,          \* who runs request(): "user" or "close"
    calls,           \* number of calls made on the client
    mp,              \* ObjectMapper.create_object: inputs and result
    pd,              \* ParamDict: the operation applied and its result
    ver,             \* ClientVersion / APIVersion: inputs and results
    fb,              \* AddFormBuilder: the builders of a call chain
    tor,             \* TorrentsAPI calls and the torrents of the server
    cc               \* create_client() and the second close() coroutine

\* the state of one request() call
retryVars == <<http, pc, method, arg_max_attempts, max_attempts, retry_delay,
               attempt_count, resp, resp_body, last_exc, sent, sleeps, trace,
               outcome>>

\* the client and its callers
clientVars == <<session, session_closes, noop_closes, http_owner, logout_when_close,
                groups, cpc, close_exc, wexc>>

\* who called request() and through what
callVars == <<wpc, api, caller, calls>>

\* the state of the pure-function checks
libVars == <<ver, fb, tor, cc>>

pureVars == <<mp, pd, libVars>>

vars == <<http, pc, method, arg_max_attempts, max_attempts, retry_delay,
          attempt_count, resp, resp_body, last_exc, sent, sleeps, trace,
          outcome, open_resps, clientVars, callVars, pureVars>>

-----------------------------------------------------------------------------
(* Bounds and input sets *)

MaxAttempts == 3

DefaultMaxAttempts == 3

DefaultRetryDelay == 5000

Methods == {"GET", "head", "POST"}

RetryDelays == {1, DefaultRetryDelay}

_RETRY_AFTER == "Retry-After"

\* Retry-After values a server may send: "0", "1", "6", "-1", "badvalue"
RetryAfterValues ==
    { <<"0">>, <<"1">>, <<"6">>, <<"-", "1">>,
      <<"b", "a", "d", "v", "a", "l", "u", "e">> }

HeaderSets == {{}} \cup { {<<_RETRY_AFTER, v>>} : v \in RetryAfterValues }

Statuses == {200, 400, 403, 404, 409, 415, 429, 500, 502, 503}

\* response bodies: b"", b"du", "中" in UTF-8, b"\x80", a truncated pair
Bodies == { <<>>, <<100, 117>>, <<228, 184, 173>>, <<128>>, <<195>> }

\* the reason phrase the server sends with each status
Reason(status) ==
    CASE status = 200 -> <<79, 75>>
      [] status = 400 -> <<66, 97, 100, 32, 82, 101, 113, 117, 101, 115, 116>>
      [] status = 403 -> <<70, 111, 114, 98, 105, 100, 100, 101, 110>>
      [] status = 404 -> <<78, 111, 116, 32, 70, 111, 117, 110, 100>>
      [] status = 409 -> <<67, 111, 110, 102, 108, 105, 99, 116>>
      [] status = 415 -> <<85, 110, 115, 117, 112, 112, 111, 114, 116, 101,
                           100, 32, 77, 101, 100, 105, 97, 32, 84, 121, 112,
                           101>>
      [] status = 429 -> <<84, 111, 111, 32, 77, 97, 110, 121, 32, 82, 101,
                           113, 117, 101, 115, 116, 115>>
      [] status = 500 -> <<73, 110, 116, 101, 114, 110, 97, 108, 32, 83, 101,
                           114, 118, 101, 114, 32, 69, 114, 114, 111, 114>>
      [] status = 502 -> <<66, 97, 100, 32, 71, 97, 116, 101, 119, 97, 121>>
      [] status = 503 -> <<83, 101, 114, 118, 105, 99, 101, 32, 85, 110, 97,
                           118, 97, 105, 108, 97, 98, 108, 101>>

Responses ==
    { [status |-> s, reason |-> Reason(s), headers |-> h] :
        s \in Statuses, h \in HeaderSets }

None == [status |-> 0, reason |-> <<>>, headers |-> {}]

NoExc == [type |-> "None", status |-> 0]

\* one entry of trace: what came back from the session for one attempt
Served(kind, status, headers) ==
    [kind |-> kind, status |-> status, headers |-> headers]

NoOutcome ==
    [kind |-> "none", cls |-> "None", status |-> 0, message |-> <<>>,
     cause |-> NoExc]

-----------------------------------------------------------------------------
(* Pure helpers *)

\* str.upper() on the method names in Methods
upper(m) ==
    CASE m = "head" -> "HEAD"
      [] m = "get" -> "GET"
      [] m = "post" -> "POST"
      [] OTHER -> m

Digits == {"0", "1", "2", "3", "4", "5", "6", "7", "8", "9"}

DigitValue(c) ==
    CASE c = "0" -> 0 [] c = "1" -> 1 [] c = "2" -> 2 [] c = "3" -> 3
      [] c = "4" -> 4 [] c = "5" -> 5 [] c = "6" -> 6 [] c = "7" -> 7
      [] c = "8" -> 8 [] c = "9" -> 9

RECURSIVE DigitsValue(_)
DigitsValue(s) ==
    IF s = <<>> THEN 0
    ELSE 10 * DigitsValue(SubSeq(s, 1, Len(s) - 1)) + DigitValue(s[Len(s)])

\* int(str): an optional sign followed by decimal digits; anything else is a
\* ValueError (ok = FALSE)
int(s) ==
    LET signed == Len(s) > 0 /\ s[1] \in {"-", "+"}
        digits == IF signed THEN Tail(s) ELSE s
    IN  IF digits # <<>> /\ \A i \in 1..Len(digits) : digits[i] \in Digits
        THEN [ok |-> TRUE,
              val |-> IF signed /\ s[1] = "-" THEN 0 - DigitsValue(digits)
                      ELSE DigitsValue(digits)]
        ELSE [ok |-> FALSE, val |-> 0]

IsCont(b) == b >= 128 /\ b <= 191

\* bytes.decode("utf-8", "strict") for one-, two- and three-byte sequences;
\* ok = FALSE is UnicodeDecodeError
RECURSIVE decode(_)
decode(b) ==
    IF b = <<>> THEN [ok |-> TRUE, text |-> <<>>]
    ELSE
      LET b1 == b[1]
          n  == IF b1 < 128 THEN 1
                ELSE IF b1 >= 194 /\ b1 <= 223 THEN 2
                ELSE IF b1 >= 224 /\ b1 <= 239 THEN 3
                ELSE 0
          wellFormed ==
              /\ n > 0
              /\ Len(b) >= n
              /\ \A i \in 2..n : IsCont(b[i])
              /\ (b1 = 224 => b[2] >= 160)
              /\ (b1 = 237 => b[2] <= 159)
          cp == CASE n = 1 -> b1
                  [] n = 2 -> (b1 - 192) * 64 + (b[2] - 128)
                  [] OTHER -> (b1 - 224) * 4096 + (b[2] - 128) * 64
                              + (b[3] - 128)
      IN  IF ~wellFormed THEN [ok |-> FALSE, text |-> <<>>]
          ELSE LET rest == decode(SubSeq(b, n + 1, Len(b)))
               IN  IF rest.ok
                   THEN [ok |-> TRUE, text |-> <<cp>> \o rest.text]
                   ELSE [ok |-> FALSE, text |-> <<>>]

HasHeader(headers, name) == \E p \in headers : p[1] = name

Header(headers, name) == (CHOOSE p \in headers : p[1] = name)[2]

-----------------------------------------------------------------------------
(* exc.py *)

_ERROR_TABLE(status) ==
    CASE status = 400 -> "BadRequestError"
      [] status = 403 -> "ForbiddenError"
      [] status = 404 -> "NotFoundError"
      [] status = 409 -> "ConflictError"
      [] status = 415 -> "UnsupportedMediaTypeError"
      [] OTHER -> "APIError"

\* from_response without the fallback to the reason phrase
from_response_NoFallback(cls, r, message, cause) ==
    [kind |-> "raise", cls |-> cls, message |-> message,
     status |-> r.status, cause |-> cause]

\* APIError.from_response(resp, message), raised "from" cause
from_response(cls, r, message, cause) ==
    [kind |-> "raise", cls |-> cls,
     message |-> IF message # <<>> THEN message ELSE r.reason,
     status |-> r.status, cause |-> cause]

-----------------------------------------------------------------------------
(* client.py *)

\* a retry set that also holds 404
_retry_statuses_With404 == {429, 503, 502, 404}

_retry_statuses == {429, 503, 502}

\* the budget left as passed, whatever the method
EffectiveMaxAttempts_AnyMethod(m, n) == n

\* the max_attempts request() works with after lines 215-216
EffectiveMaxAttempts(m, n) ==
    IF upper(m) \notin {"GET", "HEAD"} THEN 1 ELSE n

\* _retry_strategy that always retries a retryable status and sleeps the
\* smaller of the advised delay and retry_pause
_retry_strategy_Min(retry_pause, ex, r) ==
    IF r = None
    THEN IF ex.type = "ServerDisconnectedError"
         THEN <<TRUE, retry_pause>>
         ELSE <<FALSE, 0>>
    ELSE IF r.status \notin {429, 503, 502}
    THEN <<FALSE, 0>>
    ELSE
      LET present == HasHeader(r.headers, _RETRY_AFTER)
          parsed  == IF present THEN int(Header(r.headers, _RETRY_AFTER))
                     ELSE [ok |-> TRUE, val |-> -1]
      IN  IF ~present \/ ~parsed.ok \/ parsed.val < 0
          THEN <<TRUE, retry_pause>>
          ELSE IF parsed.val * 1000 <= retry_pause
          THEN <<TRUE, parsed.val * 1000>>
          ELSE <<TRUE, retry_pause>>

\* _retry_strategy that sleeps whatever the server advises
_retry_strategy_Advised(retry_pause, ex, r) ==
    IF r = None
    THEN IF ex.type = "ServerDisconnectedError"
         THEN <<TRUE, retry_pause>>
         ELSE <<FALSE, 0>>
    ELSE IF r.status \notin {429, 503, 502}
    THEN <<FALSE, 0>>
    ELSE
      LET present == HasHeader(r.headers, _RETRY_AFTER)
          parsed  == IF present THEN int(Header(r.headers, _RETRY_AFTER))
                     ELSE [ok |-> TRUE, val |-> -1]
      IN  IF present /\ ~parsed.ok THEN <<FALSE, 0>>
          ELSE IF ~present \/ parsed.val < 0 THEN <<TRUE, retry_pause>>
          ELSE <<TRUE, parsed.val * 1000>>

\* APIClient._retry_strategy: <<should_retry, sleeping_time>>
_retry_strategy(retry_pause, ex, r) ==
    IF r = None
    THEN IF ex.type = "ServerDisconnectedError"
         THEN <<TRUE, retry_pause>>
         ELSE <<FALSE, 0>>
    ELSE IF r.status \notin _retry_statuses
    THEN <<FALSE, 0>>
    ELSE
      LET present == HasHeader(r.headers, _RETRY_AFTER)
          parsed  == IF present THEN int(Header(r.headers, _RETRY_AFTER))
                     ELSE [ok |-> TRUE, val |-> -1]
      IN  IF present /\ ~parsed.ok THEN <<FALSE, 0>>
          ELSE IF ~present \/ parsed.val < 0 THEN <<TRUE, retry_pause>>
          ELSE IF parsed.val * 1000 <= retry_pause
          THEN <<TRUE, parsed.val * 1000>>
          ELSE <<FALSE, 0>>

\* _handle_error that wraps a failure without a response too
_handle_error_AlwaysWrap(error, r, body) ==
    LET d == decode(body)
        message == IF d.ok THEN d.text ELSE <<>>
    IN  from_response(_ERROR_TABLE(r.status), r, message, error)

\* _handle_error that raises the typed error without "from error"
_handle_error_NoCause(error, r, body) ==
    IF r = None
    THEN [kind |-> "raise", cls |-> error.type, message |-> <<>>,
          status |-> error.status, cause |-> NoExc]
    ELSE
      LET d == decode(body)
          message == IF d.ok THEN d.text ELSE <<>>
      IN  from_response(_ERROR_TABLE(r.status), r, message, NoExc)

\* APIClient._handle_error: the exception that leaves request()
_handle_error(error, r, body) ==
    IF r = None
    THEN [kind |-> "raise", cls |-> error.type, message |-> <<>>,
          status |-> error.status, cause |-> NoExc]
    ELSE
      LET d == decode(body)
          message == IF d.ok THEN d.text ELSE <<>>
      IN  from_response(_ERROR_TABLE(r.status), r, message, error)

\* client.py 275-285: the failure is kept, then either the next attempt is
\* scheduled (retry: attempts remain) or _handle_error raises
RetryOrRaise(ex, r, body, retry) ==
    LET strategy == _retry_strategy(retry_delay, ex, r)
    IN  /\ last_exc' = ex
        /\ resp' = r
        /\ resp_body' = body
        /\ IF retry /\ strategy[1]
           THEN /\ attempt_count' = attempt_count + 1
                /\ sleeps' = Append(sleeps, strategy[2])
                /\ pc' = "sleep"
                /\ outcome' = outcome
           ELSE /\ outcome' = _handle_error(ex, r, body)
                /\ pc' = "raised"
                /\ UNCHANGED <<attempt_count, sleeps>>

\* AfterFailure that allows one attempt too many
AfterFailure_OneMore(ex, r, body) ==
    RetryOrRaise(ex, r, body, attempt_count <= max_attempts)

\* AfterFailure that gives up one attempt early
AfterFailure_OneLess(ex, r, body) ==
    RetryOrRaise(ex, r, body, attempt_count + 1 < max_attempts)

\* client.py 277-285: after a caught failure, retry while attempts remain
AfterFailure(ex, r, body) ==
    RetryOrRaise(ex, r, body, attempt_count < max_attempts)

\* release() without effect: the response stays open
release_Forgotten(n) == n

\* ClientResponse.release() (line 254) and the exit of "async with resp"
release(n) == n - 1

\* the API groups the model follows and the ones close() detaches
GroupNames == {"torrents", "rss"}

ClosedGroups == {"app", "auth", "log", "sync", "torrents", "transfer"}

NoGroups == [g \in GroupNames |-> "absent"]

\* dataclasses.MISSING as the result of getattr(obj, name, MISSING)
MISSING == [present |-> FALSE, val |-> 0]

NoError == [cls |-> "None", kind |-> "None", key |-> <<>>, value |-> 0,
            cause |-> "None"]

\* an object is its type and its attributes as <<name, value>> pairs; no
\* result of create_object() yet (raw is the object's _aioqbt_raw_data)
NoObject == [type |-> "None", attrs |-> {}]

NoResult == [ok |-> FALSE, obj |-> NoObject, raw |-> <<>>, err |-> NoError]

NoContext == [timezone |-> 0]

MapperIdle ==
    [pc |-> "idle", rtype |-> "None", data |-> <<>>, context |-> NoContext,
     result |-> NoResult, first |-> NoObject, other |-> NoObject,
     eq |-> "None"]

\* the values handed to a ParamDict: t is the Python type, n the number
\* (a float in tenths, a timedelta in seconds, a bool as 0 or 1), s the text
\* of a str and the hexadecimal digits of a bytes, items the items of a
\* list; a float with a text is not finite
Py(t, n, s, items) == [t |-> t, n |-> n, s |-> s, items |-> items]

PyNone == Py("NoneType", 0, <<>>, <<>>)

PyStr(s) == Py("str", 0, s, <<>>)

PyInt(n) == Py("int", n, <<>>, <<>>)

PyFloat(tenths) == Py("float", tenths, <<>>, <<>>)

PyBool(b) == Py("bool", IF b THEN 1 ELSE 0, <<>>, <<>>)

PyList(items) == Py("list", 0, <<>>, items)

PyOther(t) == Py(t, 0, <<>>, <<>>)

\* no item under the key
Absent == PyOther("absent")

\* the default of _put() that stands for "no default", line 113
_missing == PyOther("_missing")

ParamKeys == {"k", "hash", "hashes"}

ParamIdle ==
    [pc |-> "none", data |-> [k \in ParamKeys |-> Absent], exc |-> "None"]

\* Optional[APIVersion]: None, or the tuple (major, minor, release)
NoVersion == [none |-> TRUE, v |-> <<0, 0, 0>>]

\* no ClientVersion: the result of a constructor or of parse() that raised
NoClientVersion ==
    [ok |-> FALSE,
     key |-> [major |-> 0, minor |-> 0, patch |-> 0, build |-> 0,
              st0 |-> <<>>, st1 |-> 0],
     status |-> <<>>, exc |-> "None"]

VersionIdle ==
    [pc |-> "idle", a |-> NoVersion, b |-> NoVersion, c |-> NoVersion,
     aa |-> 0, ab |-> 0, ba |-> 0, bc |-> 0, ac |-> 0,
     v |-> NoClientVersion, text |-> <<>>, parsed |-> NoClientVersion]

\* no AddFormBuilder made yet: the builders and the lists they refer to, the
\* builder the last call returned (0: none) and the exception it raised
BuilderIdle == [builders |-> <<>>, lists |-> <<>>, ret |-> 0, exc |-> "None"]

\* the info hashes of the torrents the server may hold
InfoHash0 == [i \in 1..40 |-> "0"]

InfoHash1 == [i \in 1..40 |-> "1"]

TorrentHashes == { InfoHash0, InfoHash1 }

\* the coroutines that call TorrentsAPI
Coroutines == { 1, 2 }

\* a coroutine that has made no call of TorrentsAPI
NoTorrentsCall ==
    [pc |-> "idle", op |-> "none", hashes |-> PyNone, value |-> FALSE,
     request |-> <<>>, result |-> <<>>, targets |-> <<>>, sent |-> 0,
     repeat |-> FALSE, exc |-> "None"]

\* a server without torrents, no call of TorrentsAPI made: the torrents of
\* the server, the calls of the coroutines and their number
TorrentsIdle ==
    [server |-> [h \in TorrentHashes |->
                   [present |-> FALSE, seq_dl |-> FALSE,
                    f_l_piece_prio |-> FALSE]],
     co |-> [c \in Coroutines |-> NoTorrentsCall],
     calls |-> 0]

\* a close() task that has not started
NoClose == [pc |-> "idle", exc |-> "None"]

\* the close() tasks that run next to the calls of the user
Closers == { 1, 2 }

\* create_client() not called: no client made; texts are the answers of the
\* version queries
NoCreate ==
    [pc |-> "idle", made |-> FALSE, http |-> "None", session |-> "open",
     owner |-> FALSE, logout |-> FALSE, login |-> FALSE, exc |-> "None",
     texts |-> <<>>, client_version |-> NoClientVersion,
     api_version |-> NoVersion]

CreateIdle == [close |-> [k \in Closers |-> NoClose], create |-> NoCreate]

-----------------------------------------------------------------------------
(* Actions *)

Init ==
    /\ http = "open"
    /\ pc = "idle"
    /\ method = "GET"
    /\ arg_max_attempts = DefaultMaxAttempts
    /\ max_attempts = DefaultMaxAttempts
    /\ retry_delay = DefaultRetryDelay
    /\ attempt_count = 0
    /\ resp = None
    /\ resp_body = <<>>
    /\ last_exc = NoExc
    /\ sent = 0
    /\ sleeps = <<>>
    /\ trace = <<>>
    /\ outcome = NoOutcome
    /\ open_resps = 0
    /\ session = "open"
    /\ session_closes = 0
    /\ noop_closes = 0
    /\ http_owner = TRUE
    /\ logout_when_close = FALSE
    /\ groups = NoGroups
    /\ cpc = "idle"
    /\ close_exc = "None"
    /\ wpc = "none"
    /\ wexc = "None"
    /\ api = "none"
    /\ caller = "user"
    /\ calls = 0
    /\ mp = MapperIdle
    /\ pd = ParamIdle
    /\ ver = VersionIdle
    /\ fb = BuilderIdle
    /\ tor = TorrentsIdle
    /\ cc = CreateIdle

\* request() without the closed-client test of lines 218-219: the attribute
\* access on None at line 238 raises AttributeError
request_entry_NoClosedTest(m, n, d) ==
    /\ pc = "idle"
    /\ method' = m
    /\ arg_max_attempts' = n
    /\ retry_delay' = d
    /\ UNCHANGED <<http, resp, resp_body, last_exc, sleeps, trace>>
    /\ IF n <= 0
       THEN /\ pc' = "raised"
            /\ outcome' = [NoOutcome EXCEPT !.kind = "raise",
                                            !.cls = "ValueError"]
            /\ UNCHANGED <<max_attempts, attempt_count, sent>>
       ELSE /\ max_attempts' = EffectiveMaxAttempts(m, n)
            /\ IF http = "None"
               THEN /\ pc' = "raised"
                    /\ outcome' = [NoOutcome EXCEPT !.kind = "raise",
                                                    !.cls = "AttributeError"]
                    /\ UNCHANGED <<attempt_count, sent>>
               ELSE /\ attempt_count' = 1
                    /\ sent' = sent + 1
                    /\ pc' = "http_request"
                    /\ outcome' = outcome
    /\ UNCHANGED open_resps

\* request(), lines 213-238: argument checks, then the first attempt is sent
request_entry(m, n, d) ==
    /\ pc = "idle"
    /\ method' = m
    /\ arg_max_attempts' = n
    /\ retry_delay' = d
    /\ UNCHANGED <<http, resp, resp_body, last_exc, sleeps, trace>>
    /\ IF n <= 0
       THEN /\ pc' = "raised"
            /\ outcome' = [NoOutcome EXCEPT !.kind = "raise",
                                            !.cls = "ValueError"]
            /\ UNCHANGED <<max_attempts, attempt_count, sent>>
       ELSE /\ max_attempts' = EffectiveMaxAttempts(m, n)
            /\ IF http = "None"
               THEN /\ pc' = "raised"
                    /\ outcome' = [NoOutcome EXCEPT !.kind = "raise",
                                                    !.cls = "RuntimeError"]
                    /\ UNCHANGED <<attempt_count, sent>>
               ELSE /\ attempt_count' = 1
                    /\ sent' = sent + 1
                    /\ pc' = "http_request"
                    /\ outcome' = outcome
    /\ UNCHANGED open_resps

\* request() called directly by the user of the client
request(m, n, d) ==
    /\ request_entry(m, n, d)
    /\ UNCHANGED <<clientVars, callVars, pureVars>>

\* line 238 completes with a response; 200 is returned (lines 248-249),
\* anything else goes on to resp.read()
HttpResponse(r) ==
    /\ pc = "http_request"
    /\ resp' = r
    /\ trace' = Append(trace, Served("response", r.status, r.headers))
    /\ IF r.status = 200
       THEN /\ pc' = "returned"
            /\ outcome' = [NoOutcome EXCEPT !.kind = "return",
                                            !.status = r.status]
       ELSE /\ pc' = "resp_read"
            /\ outcome' = outcome
    /\ open_resps' = open_resps + 1
    /\ UNCHANGED <<http, method, arg_max_attempts, max_attempts, retry_delay,
                   attempt_count, resp_body, last_exc, sent, sleeps>>
    /\ UNCHANGED <<clientVars, callVars, pureVars>>

\* lines 253-285: the body is read, the response released, and
\* ClientResponseError raised and caught
ReadBody(b) ==
    /\ pc = "resp_read"
    /\ AfterFailure([type |-> "ClientResponseError", status |-> resp.status],
                    resp, b)
    /\ open_resps' = release(open_resps)
    /\ UNCHANGED <<http, method, arg_max_attempts, max_attempts, retry_delay,
                   sent, trace>>
    /\ UNCHANGED <<clientVars, callVars, pureVars>>

\* line 238 raises ServerDisconnectedError, caught at line 263
ServerDisconnected ==
    /\ pc = "http_request"
    /\ trace' = Append(trace, Served("disconnected", 0, {}))
    /\ AfterFailure([type |-> "ServerDisconnectedError", status |-> 0],
                    None, <<>>)
    /\ UNCHANGED <<http, method, arg_max_attempts, max_attempts, retry_delay,
                   sent>>
    /\ UNCHANGED <<open_resps, clientVars, callVars, pureVars>>

\* line 238 raises a ClientResponseError of the session's own
\* (TooManyRedirects), caught at line 263 with resp still None
TooManyRedirects ==
    /\ pc = "http_request"
    /\ trace' = Append(trace, Served("redirects", 302, {}))
    /\ AfterFailure([type |-> "TooManyRedirects", status |-> 302],
                    None, <<>>)
    /\ UNCHANGED <<http, method, arg_max_attempts, max_attempts, retry_delay,
                   sent>>
    /\ UNCHANGED <<open_resps, clientVars, callVars, pureVars>>

\* line 238 raises a ClientError the except clause does not name
\* (a connection reset surfaces as ClientOSError): it leaves request()
ClientOSError ==
    /\ pc = "http_request"
    /\ trace' = Append(trace, Served("oserror", 0, {}))
    /\ pc' = "raised"
    /\ outcome' = [NoOutcome EXCEPT !.kind = "raise",
                                    !.cls = "ClientOSError"]
    /\ UNCHANGED <<http, method, arg_max_attempts, max_attempts, retry_delay,
                   attempt_count, resp, resp_body, last_exc, sent, sleeps>>
    /\ UNCHANGED <<open_resps, clientVars, callVars, pureVars>>

\* line 282 completes; lines 233-238: the locals are reset and the next
\* attempt is sent; on a client closed during the sleep, self._http is None
\* and the attribute access of line 238 raises AttributeError
SleepDone ==
    /\ pc = "sleep"
    /\ resp' = None
    /\ resp_body' = <<>>
    /\ IF http = "None"
       THEN /\ pc' = "raised"
            /\ outcome' = [NoOutcome EXCEPT !.kind = "raise",
                                            !.cls = "AttributeError"]
            /\ sent' = sent
       ELSE /\ pc' = "http_request"
            /\ sent' = sent + 1
            /\ outcome' = outcome
    /\ UNCHANGED <<http, method, arg_max_attempts, max_attempts, retry_delay,
                   attempt_count, last_exc, sleeps, trace>>
    /\ UNCHANGED <<open_resps, clientVars, callVars, pureVars>>

Next ==
    \/ \E m \in Methods, n \in 0..MaxAttempts, d \in RetryDelays :
          request(m, n, d)
    \/ \E r \in Responses : HttpResponse(r)
    \/ \E b \in Bodies : ReadBody(b)
    \/ ServerDisconnected
    \/ TooManyRedirects
    \/ ClientOSError
    \/ SleepDone

Spec == Init /\ [][Next]_vars

\* every await of request() completes: the session answers, the body is
\* read, the sleep ends
FairSpec == Spec /\ WF_vars(Next)

-----------------------------------------------------------------------------
(* The client's life cycle: client.py 126-167, 354-381, 483-511 *)

MaxCalls == 3

ClientMethods == {"GET", "POST"}

ClientAttempts == {0, 1, 2}

ClientResponses ==
    { [status |-> s, reason |-> Reason(s), headers |-> {}] :
        s \in {200, 403, 500, 503} }

\* bodies of a 200 response: "[]", "du", b"\x80"; of a failure: b"", b"\x80"
ClientBodies == { <<>>, <<91, 93>>, <<100, 117>>, <<128>> }

\* json.loads on the texts of ClientBodies: "[]" and "{}" parse
loads_ok(text) == text \in { <<91, 93>>, <<123, 125>> }

\* the calls that go through request_json()
UsesJson(a) == a \in {"request_json", "torrents", "rss"}

\* the running call has raised / has returned to its caller
CallRaised == pc = "raised" \/ wpc = "raised"

CallReturned == (wpc = "none" /\ pc = "returned") \/ wpc = "returned"

CallError == IF pc = "raised" THEN outcome.cls ELSE wexc

\* a new call may start: nothing is running on the client
CanCall ==
    /\ pc = "idle"
    /\ cpc \in {"idle", "returned", "raised"}
    /\ calls < MaxCalls

\* the locals of a finished call are dropped
ResetCall ==
    /\ pc' = "idle"
    /\ method' = "GET"
    /\ arg_max_attempts' = DefaultMaxAttempts
    /\ max_attempts' = DefaultMaxAttempts
    /\ retry_delay' = DefaultRetryDelay
    /\ attempt_count' = 0
    /\ resp' = None
    /\ resp_body' = <<>>
    /\ last_exc' = NoExc
    /\ sent' = 0
    /\ sleeps' = <<>>
    /\ trace' = <<>>
    /\ outcome' = NoOutcome
    /\ wpc' = "none"
    /\ wexc' = "None"

ClientInit ==
    /\ http = "open"
    /\ pc = "idle"
    /\ method = "GET"
    /\ arg_max_attempts = DefaultMaxAttempts
    /\ max_attempts = DefaultMaxAttempts
    /\ retry_delay = DefaultRetryDelay
    /\ attempt_count = 0
    /\ resp = None
    /\ resp_body = <<>>
    /\ last_exc = NoExc
    /\ sent = 0
    /\ sleeps = <<>>
    /\ trace = <<>>
    /\ outcome = NoOutcome
    /\ open_resps = 0
    /\ session = "open"
    /\ session_closes = 0
    /\ noop_closes = 0
    /\ http_owner \in BOOLEAN
    /\ logout_when_close \in BOOLEAN
    /\ groups = NoGroups
    /\ cpc = "idle"
    /\ close_exc = "None"
    /\ wpc = "none"
    /\ wexc = "None"
    /\ api = "none"
    /\ caller = "user"
    /\ calls = 0
    /\ mp = MapperIdle
    /\ pd = ParamIdle
    /\ ver = VersionIdle
    /\ fb = BuilderIdle
    /\ tor = TorrentsIdle
    /\ cc = CreateIdle

\* the user calls client.request()
ClientRequest(m, n, d) ==
    /\ CanCall
    /\ request_entry(m, n, d)
    /\ wpc' = "none"
    /\ api' = "request"
    /\ caller' = "user"
    /\ calls' = calls + 1
    /\ UNCHANGED <<clientVars, pureVars>>

\* request_text(), line 364: request() is awaited
request_text(m, n, d) ==
    /\ CanCall
    /\ request_entry(m, n, d)
    /\ wpc' = "request"
    /\ api' = "request_text"
    /\ caller' = "user"
    /\ calls' = calls + 1
    /\ UNCHANGED <<clientVars, pureVars>>

\* request_json(), line 377: request() is awaited
request_json(m, n, d) ==
    /\ CanCall
    /\ request_entry(m, n, d)
    /\ wpc' = "request"
    /\ api' = "request_json"
    /\ caller' = "user"
    /\ calls' = calls + 1
    /\ UNCHANGED <<clientVars, pureVars>>

\* client.<group>: the cached group, or a new one that keeps no reference
\* to a closed client (lines 410-480, 490-492)
GroupRef(g) ==
    IF groups[g] = "absent"
    THEN IF http = "None" THEN "None" ELSE "client"
    ELSE groups[g]

\* a method of an API group (client.torrents.info(), client.rss.items()):
\* APIGroup._client() raises on a detached group, else request_json() runs
GroupCall(g) ==
    /\ CanCall
    /\ groups' = [groups EXCEPT ![g] = GroupRef(g)]
    /\ api' = g
    /\ caller' = "user"
    /\ calls' = calls + 1
    /\ wpc' = "request"
    /\ IF GroupRef(g) = "None"
       THEN /\ pc' = "raised"
            /\ outcome' = [NoOutcome EXCEPT !.kind = "raise",
                                            !.cls = "RuntimeError"]
            /\ UNCHANGED <<http, method, arg_max_attempts, max_attempts,
                           retry_delay, attempt_count, resp, resp_body,
                           last_exc, sent, sleeps, trace, open_resps>>
       ELSE request_entry("GET", DefaultMaxAttempts, DefaultRetryDelay)
    /\ UNCHANGED <<session, session_closes, noop_closes, http_owner, logout_when_close,
                   cpc, close_exc, wexc, pureVars>>

\* lines 365-366 and 378-379: "async with resp" around resp.text() or
\* resp.json(); the response is released when the block is left
ReadText(b) ==
    /\ wpc = "request"
    /\ pc = "returned"
    /\ LET d == decode(b)
           ok == d.ok /\ (UsesJson(api) => loads_ok(d.text))
       IN  /\ wpc' = IF ok THEN "returned" ELSE "raised"
           /\ wexc' = IF ok THEN "None"
                      ELSE IF d.ok THEN "JSONDecodeError"
                      ELSE "UnicodeDecodeError"
    /\ resp_body' = b
    /\ open_resps' = release(open_resps)
    /\ UNCHANGED <<http, pc, method, arg_max_attempts, max_attempts,
                   retry_delay, attempt_count, resp, last_exc, sent, sleeps,
                   trace, outcome>>
    /\ UNCHANGED <<session, session_closes, noop_closes, http_owner, logout_when_close,
                   groups, cpc, close_exc, api, caller, calls, pureVars>>

\* the task is cancelled while the call is suspended: CancelledError is
\* raised at the await (lines 238, 253, 282, 366, 379).  A failing
\* resp.read() closes its response; "async with" releases it.
Cancelled ==
    /\ \/ pc \in {"http_request", "resp_read", "sleep"}
       \/ pc = "returned" /\ wpc = "request"
    /\ IF pc = "returned"
       THEN /\ wpc' = "raised"
            /\ wexc' = "CancelledError"
            /\ open_resps' = release(open_resps)
            /\ UNCHANGED <<pc, outcome>>
       ELSE /\ pc' = "raised"
            /\ outcome' = [NoOutcome EXCEPT !.kind = "raise",
                                            !.cls = "CancelledError"]
            /\ open_resps' = IF pc = "resp_read" THEN open_resps - 1
                             ELSE open_resps
            /\ UNCHANGED <<wpc, wexc>>
    /\ UNCHANGED <<http, method, arg_max_attempts, max_attempts, retry_delay,
                   attempt_count, resp, resp_body, last_exc, sent, sleeps,
                   trace>>
    /\ UNCHANGED <<session, session_closes, noop_closes, http_owner, logout_when_close,
                   groups, cpc, close_exc, api, caller, calls, pureVars>>

\* the user has the result of the call; a response returned by request()
\* itself is used in "async with" and released by the user
CallReturns ==
    /\ caller = "user"
    /\ CallRaised \/ CallReturned
    /\ open_resps' = IF wpc = "none" /\ pc = "returned"
                     THEN release(open_resps) ELSE open_resps
    /\ ResetCall
    /\ UNCHANGED <<http, session, session_closes, noop_closes, http_owner,
                   logout_when_close, groups, cpc, close_exc, api, caller,
                   calls, pureVars>>

\* the session closed whoever owns it
CloseGroupsAndSession_Always ==
    /\ groups' = [g \in GroupNames |->
                    IF g \in ClosedGroups THEN "absent" ELSE groups[g]]
    /\ cpc' = "session_close"
    /\ http' = http
    /\ close_exc' = "None"
    /\ UNCHANGED <<session, session_closes, noop_closes, http_owner,
                   logout_when_close>>

\* close(), lines 151-167 up to "await self._http.close()": the groups are
\* detached and dropped; a borrowed session is only detached
CloseGroupsAndSession ==
    /\ groups' = [g \in GroupNames |->
                    IF g \in ClosedGroups THEN "absent" ELSE groups[g]]
    /\ IF http_owner
       THEN /\ cpc' = "session_close"
            /\ http' = http
       ELSE /\ cpc' = "returned"
            /\ http' = "None"
    /\ close_exc' = "None"
    /\ UNCHANGED <<session, session_closes, noop_closes, http_owner,
                   logout_when_close>>

\* close() without the test of lines 142-143
close_NoClosedTest ==
    /\ CanCall
    /\ api' = "close"
    /\ calls' = calls + 1
    /\ IF logout_when_close
       THEN /\ cpc' = "logout"
            /\ caller' = "close"
            /\ wpc' = "request"
            /\ request_entry("POST", DefaultMaxAttempts, DefaultRetryDelay)
            /\ close_exc' = "None"
            /\ UNCHANGED <<session, session_closes, noop_closes,
                           http_owner, logout_when_close, groups, wexc,
                           pureVars>>
       ELSE /\ CloseGroupsAndSession
            /\ UNCHANGED <<pc, method, arg_max_attempts, max_attempts,
                           retry_delay, attempt_count, resp, resp_body,
                           last_exc, sent, sleeps, trace, outcome,
                           open_resps, wpc, wexc, caller, pureVars>>

\* close(), lines 142-147: nothing to do on a closed client; else the
\* logout request is sent (auth.logout() is request_text("POST",
\* "auth/logout")), or the groups and the session are closed
close ==
    /\ CanCall
    /\ api' = "close"
    /\ calls' = calls + 1
    /\ IF http = "None"
       THEN /\ cpc' = "returned"
            /\ noop_closes' = noop_closes + 1
            /\ close_exc' = "None"
            /\ UNCHANGED <<retryVars, open_resps, session, session_closes,
                           http_owner, logout_when_close, groups, wexc, wpc,
                           caller, pureVars>>
       ELSE IF logout_when_close
       THEN /\ cpc' = "logout"
            /\ caller' = "close"
            /\ wpc' = "request"
            /\ request_entry("POST", DefaultMaxAttempts, DefaultRetryDelay)
            /\ close_exc' = "None"
            /\ UNCHANGED <<session, session_closes, noop_closes, http_owner,
                           logout_when_close, groups, wexc, pureVars>>
       ELSE /\ CloseGroupsAndSession
            /\ UNCHANGED <<pc, method, arg_max_attempts, max_attempts,
                           retry_delay, attempt_count, resp, resp_body,
                           last_exc, sent, sleeps, trace, outcome,
                           open_resps, wpc, wexc, caller, pureVars>>

\* line 148: the exceptions of auth.logout() that close() swallows
Swallowed(e) == e = "ForbiddenError"

\* lines 146-167: auth.logout() is over; ForbiddenError is swallowed, any
\* other exception leaves close()
LogoutDone ==
    /\ cpc = "logout"
    /\ caller = "close"
    /\ CallRaised \/ CallReturned
    /\ ResetCall
    /\ caller' = "user"
    /\ IF CallReturned \/ Swallowed(CallError)
       THEN CloseGroupsAndSession
       ELSE /\ cpc' = "raised"
            /\ close_exc' = CallError
            /\ UNCHANGED <<http, session, session_closes, noop_closes, http_owner,
                           logout_when_close, groups>>
    /\ UNCHANGED <<open_resps, api, calls, pureVars>>

\* lines 164-167: the owned session is closed, then detached
SessionClosed ==
    /\ cpc = "session_close"
    /\ session' = "closed"
    /\ session_closes' = session_closes + 1
    /\ http' = "None"
    /\ cpc' = "returned"
    /\ UNCHANGED <<noop_closes, pc, method, arg_max_attempts, max_attempts, retry_delay,
                   attempt_count, resp, resp_body, last_exc, sent, sleeps,
                   trace, outcome, open_resps, http_owner, logout_when_close,
                   groups, close_exc, wpc, wexc, api, caller, calls,
                   pureVars>>

\* APIClient.is_closed(), lines 126-128
is_closed == http = "None"

ClientNext ==
    \/ \E m \in ClientMethods, n \in ClientAttempts :
          ClientRequest(m, n, DefaultRetryDelay)
    \/ \E m \in ClientMethods, n \in ClientAttempts :
          request_text(m, n, DefaultRetryDelay)
    \/ \E m \in ClientMethods, n \in ClientAttempts :
          request_json(m, n, DefaultRetryDelay)
    \/ \E g \in GroupNames : GroupCall(g)
    \/ \E r \in ClientResponses : HttpResponse(r)
    \/ \E b \in ClientBodies : ReadBody(b)
    \/ \E b \in ClientBodies : ReadText(b)
    \/ ServerDisconnected
    \/ SleepDone
    \/ Cancelled
    \/ CallReturns
    \/ close
    \/ LogoutDone
    \/ SessionClosed

ClientSpec == ClientInit /\ [][ClientNext]_vars

-----------------------------------------------------------------------------
(* close() next to a running request() or another close(): client.py
   135-167, 218-283 *)

\* how the auth.logout() of a close() task ends: it returns, or it raises
\* ForbiddenError or another APIError
LogoutResults == { "None", "ForbiddenError", "APIError" }

closeFrame ==
    UNCHANGED <<pc, method, arg_max_attempts, max_attempts, retry_delay,
                attempt_count, resp, resp_body, last_exc, sent, sleeps, trace,
                outcome, open_resps, http_owner, logout_when_close, cpc,
                close_exc, wexc, callVars, mp, pd, ver, fb, tor>>

\* close(), lines 151-167 up to the await of line 165: the groups are
\* dropped; self._http.close() is called on what self._http is by now
CloseTail(k) ==
    /\ groups' = [g \in GroupNames |->
                    IF g \in ClosedGroups THEN "absent" ELSE groups[g]]
    /\ IF ~http_owner
       THEN /\ http' = "None"
            /\ cc' = [cc EXCEPT !.close[k].pc = "returned"]
       ELSE /\ http' = http
            /\ cc' = IF http = "None"
                     THEN [cc EXCEPT !.close[k].pc = "raised",
                                     !.close[k].exc = "AttributeError"]
                     ELSE [cc EXCEPT !.close[k].pc = "session_close"]
    /\ UNCHANGED <<session, session_closes, noop_closes>>

\* a task calls close(), lines 142-147, whatever else runs on the client
close_task(k) ==
    /\ cc.close[k].pc = "idle"
    /\ IF http = "None"
       THEN /\ cc' = [cc EXCEPT !.close[k].pc = "returned"]
            /\ noop_closes' = noop_closes + 1
            /\ UNCHANGED <<http, session, session_closes, groups>>
       ELSE IF logout_when_close
       THEN /\ cc' = [cc EXCEPT !.close[k].pc = "logout"]
            /\ UNCHANGED <<http, session, session_closes, noop_closes,
                           groups>>
       ELSE CloseTail(k)
    /\ closeFrame

\* the auth.logout() of the task is over, lines 146-149: ForbiddenError is
\* swallowed, another exception leaves close()
close_logout(k, e) ==
    /\ cc.close[k].pc = "logout"
    /\ IF e = "None" \/ Swallowed(e)
       THEN CloseTail(k)
       ELSE /\ cc' = [cc EXCEPT !.close[k].pc = "raised",
                                !.close[k].exc = e]
            /\ UNCHANGED <<http, session, session_closes, noop_closes,
                           groups>>
    /\ closeFrame

\* the await of line 165 is over; line 167
close_session(k) ==
    /\ cc.close[k].pc = "session_close"
    /\ session' = "closed"
    /\ session_closes' = session_closes + 1
    /\ http' = "None"
    /\ cc' = [cc EXCEPT !.close[k].pc = "returned"]
    /\ UNCHANGED <<noop_closes, groups>>
    /\ closeFrame

RaceNext ==
    \/ \E n \in ClientAttempts : ClientRequest("GET", n, DefaultRetryDelay)
    \/ \E r \in ClientResponses : HttpResponse(r)
    \/ \E b \in ClientBodies : ReadBody(b)
    \/ ServerDisconnected
    \/ SleepDone
    \/ CallReturns
    \/ \E k \in Closers : close_task(k)
    \/ \E k \in Closers, e \in LogoutResults : close_logout(k, e)
    \/ \E k \in Closers : close_session(k)

RaceSpec == ClientInit /\ [][RaceNext]_vars

-----------------------------------------------------------------------------
(* The object mapper: mapper.py 185-242 and 486-504 *)

MaxKeys == 2

\* raw JSON values of the input
RawValues == {0, 1, 2}

Letters ==
    {"a", "b", "c", "d", "e", "f", "g", "h", "i", "j", "k", "l", "m", "n",
     "o", "p", "q", "r", "s", "t", "u", "v", "w", "x", "y", "z"}

\* str.isidentifier() on ASCII names
isidentifier(key) ==
    /\ key # <<>>
    /\ key[1] \in Letters \cup {"_"}
    /\ \A i \in 1..Len(key) : key[i] \in Letters \cup Digits \cup {"_"}

\* str.startswith() with a prefix of one character
startswith(key, c) == key # <<>> /\ key[1] = c

\* the keys of the input: a, b, c, x, _p, k-1
KeyNames ==
    { <<"a">>, <<"b">>, <<"c">>, <<"x">>, <<"_", "p">>, <<"k", "-", "1">> }

\* the context handed to the converters: timezone 0 is None
Contexts == { [timezone |-> 0], [timezone |-> 1] }

RECURSIVE InputsOfLen(_)
InputsOfLen(n) ==
    IF n = 0 THEN { <<>> }
    ELSE { Append(q[1], <<q[2], q[3]>>) :
             q \in { t \in InputsOfLen(n - 1) \X KeyNames \X RawValues :
                       \A i \in 1..Len(t[1]) : t[1][i][1] # t[2] } }

\* the input mappings: dicts of at most MaxKeys items, in insertion order
Inputs == UNION { InputsOfLen(n) : n \in 0..MaxKeys }

\* the members of the enum type of field a
EnumMembers == {0, 1}

\* EnumConverter.__call__ (converter.py 172-176): the member of the value,
\* written 10 + value, or ValueError
EnumConverter(value, context) ==
    IF value \in EnumMembers
    THEN [ok |-> TRUE, val |-> 10 + value, exc |-> "None"]
    ELSE [ok |-> FALSE, val |-> 0, exc |-> "ValueError"]

\* DateTimeConverter.__call__ (converter.py 90-102) with an empty table:
\* datetime.fromtimestamp(value, tz), written 1000 + 10 * value + tz
DateTimeConverter(value, context) ==
    [ok |-> TRUE, val |-> 1000 + 10 * value + context.timezone,
     exc |-> "None"]

\* _FieldInfo and Field.compare of the fields of the declarative type Item:
\*   a: E = field(convert=EnumConverter(E))
\*   b: datetime = field(default=2, convert=DateTimeConverter())
\*   c: int = field(default_factory=lambda: 2, compare=False)
FieldInfo(name) ==
    CASE name = <<"a">> ->
           [convert |-> "EnumConverter", has_default |-> FALSE,
            default |-> 0, default_factory |-> "None", compare |-> TRUE]
      [] name = <<"b">> ->
           [convert |-> "DateTimeConverter", has_default |-> TRUE,
            default |-> 2, default_factory |-> "None", compare |-> TRUE]
      [] name = <<"c">> ->
           [convert |-> "None", has_default |-> FALSE,
            default |-> 0, default_factory |-> "lambda", compare |-> FALSE]

\* the declarative types: Item keeps its attributes in __dict__; Base
\* (tests/test_mapper.py 210-212) declares no field and only the private
\* slot of the raw data, so its instances have no __dict__
Types == {"Item", "Base"}

\* _TypeInfo, _resolve_type_info() lines 132-177
TypeInfo(rtype) ==
    IF rtype = "Item"
    THEN [fields |-> << <<"a">>, <<"b">>, <<"c">> >>, slot_names |-> <<>>,
          has_dict |-> TRUE]
    ELSE [fields |-> <<>>, slot_names |-> <<>>, has_dict |-> FALSE]

\* the elements of a sequence
Range(seq) == { seq[i] : i \in 1..Len(seq) }

\* the keys of a dict held as <<key, value>> pairs
Keys(dict_data) == { p[1] : p \in dict_data }

\* the call of a converter
convert(conv, value, context) ==
    IF conv = "EnumConverter" THEN EnumConverter(value, context)
    ELSE DateTimeConverter(value, context)

\* the converter called with an empty context
convert_field_NoContext(fi, value, context) ==
    convert(fi.convert, value, NoContext)

\* line 209: field_info.convert(value, context)
convert_field(fi, value, context) == convert(fi.convert, value, context)

MapperError(kind, key, value, cause) ==
    [cls |-> "MapperError", kind |-> kind, key |-> key, value |-> value,
     cause |-> cause]

\* lines 198-211 from the i-th item of the input on: the names are
\* validated and the values converted; the first failure ends the loop
RECURSIVE validate_and_convert(_, _, _, _)
validate_and_convert(info, data, context, i) ==
    IF i > Len(data) THEN [ok |-> TRUE, dict_data |-> {}, err |-> NoError]
    ELSE
      LET key == data[i][1]
          value == data[i][2]
          rest == validate_and_convert(info, data, context, i + 1)
          keep(v) == IF rest.ok
                    THEN [rest EXCEPT !.dict_data = @ \cup {<<key, v>>}]
                    ELSE rest
          stop(e) == [ok |-> FALSE, dict_data |-> {}, err |-> e]
      IN  IF key \notin Range(info.fields)
          THEN IF isidentifier(key) /\ ~startswith(key, "_")
               THEN keep(value)
               ELSE stop(MapperError("Bad field name", key, 0, "None"))
          ELSE IF FieldInfo(key).convert = "None" THEN keep(value)
          ELSE LET c == convert_field(FieldInfo(key), value, context)
               IN  IF c.ok THEN keep(c.val)
                   ELSE stop(MapperError("Cannot convert", key, value, c.exc))

\* line 155, 164: the fields that have a default or a default factory
default_fields(info) ==
    { f \in Range(info.fields) :
        FieldInfo(f).has_default \/ FieldInfo(f).default_factory # "None" }

\* lines 219-222: the default, or the default factory called (lambda: 2)
default_value(f) ==
    IF FieldInfo(f).has_default THEN FieldInfo(f).default ELSE 2

\* the defaults stored whether the key is present or not
fill_defaults_Overwrite(info, dict_data) ==
    { p \in dict_data : p[1] \notin default_fields(info) }
    \cup { <<f, default_value(f)>> : f \in default_fields(info) }

\* lines 214-224: the absent fields that have a default are filled in
fill_defaults(info, dict_data) ==
    dict_data
    \cup { <<f, default_value(f)>> :
             f \in default_fields(info) \ Keys(dict_data) }

\* lines 226-241: the slot fields are set with setattr(); the rest goes
\* to vars(inst), which raises TypeError on an instance without __dict__
instantiate(rtype, info, dict_data, data) ==
    LET slot_data == { p \in dict_data : p[1] \in Range(info.slot_names) }
        rest == dict_data \ slot_data
    IN  IF rest # {} /\ ~info.has_dict
        THEN [NoResult EXCEPT
                !.err = [NoError EXCEPT !.cls = "TypeError",
                                        !.kind = "vars"]]
        ELSE [ok |-> TRUE,
              obj |-> [type |-> rtype, attrs |-> slot_data \cup rest],
              raw |-> data, err |-> NoError]

\* ObjectMapper.create_object(), lines 185-242
create_object(rtype, data, context) ==
    LET info == TypeInfo(rtype)
        r == validate_and_convert(info, data, context, 1)
    IN  IF ~r.ok THEN [NoResult EXCEPT !.err = r.err]
        ELSE instantiate(rtype, info, fill_defaults(info, r.dict_data), data)

\* getattr(obj, name, MISSING)
getattr(obj, name) ==
    IF name \in Keys(obj.attrs)
    THEN [present |-> TRUE,
          val |-> (CHOOSE p \in obj.attrs : p[1] = name)[2]]
    ELSE MISSING

\* attrs of _eq_fn, line 495: the fields with compare=True
compare_attrs(rtype) ==
    SelectSeq(TypeInfo(rtype).fields, LAMBDA f : FieldInfo(f).compare)

\* the __eq__ that dataclasses generates: (self.a, self.b) == (other.a,
\* other.b) raises AttributeError on an absent attribute
_eq_fn_Dataclass(self, other) ==
    IF self.type = other.type
    THEN LET attrs == compare_attrs(self.type)
         IN  IF \E i \in 1..Len(attrs) :
                    \/ getattr(self, attrs[i]) = MISSING
                    \/ getattr(other, attrs[i]) = MISSING
             THEN "AttributeError"
             ELSE IF [i \in 1..Len(attrs) |-> getattr(self, attrs[i])]
                     = [i \in 1..Len(attrs) |-> getattr(other, attrs[i])]
                  THEN "True" ELSE "False"
    ELSE "NotImplemented"

\* the __eq__ of _eq_fn(), lines 486-504
_eq_fn(self, other) ==
    IF self.type = other.type
    THEN LET attrs == compare_attrs(self.type)
         IN  IF [i \in 1..Len(attrs) |-> getattr(self, attrs[i])]
                = [i \in 1..Len(attrs) |-> getattr(other, attrs[i])]
             THEN "True" ELSE "False"
    ELSE "NotImplemented"

\* mapper.create_object(rtype, data, context)
CreateObject(rtype, data, context) ==
    /\ mp.pc = "idle"
    /\ mp' = [MapperIdle EXCEPT !.pc = "created", !.rtype = rtype,
                                !.data = data, !.context = context,
                                !.result = create_object(rtype, data, context)]
    /\ UNCHANGED <<retryVars, open_resps, clientVars, callVars, pd, libVars>>

\* the caller keeps the object; its raw data is not followed further
KeepObject ==
    /\ mp.pc = "created"
    /\ mp.result.ok
    /\ mp' = [MapperIdle EXCEPT !.pc = "kept", !.first = mp.result.obj]
    /\ UNCHANGED <<retryVars, open_resps, clientVars, callVars, pd, libVars>>

\* first == mapper.create_object(rtype, data, context)
Compare(rtype, data, context) ==
    /\ mp.pc = "kept"
    /\ LET r == create_object(rtype, data, context)
       IN  /\ r.ok
           /\ mp' = [mp EXCEPT !.pc = "compared", !.other = r.obj,
                               !.eq = _eq_fn(mp.first, r.obj)]
    /\ UNCHANGED <<retryVars, open_resps, clientVars, callVars, pd, libVars>>

MapperNext ==
    \/ \E rtype \in Types, data \in Inputs, context \in Contexts :
          CreateObject(rtype, data, context)
    \/ KeepObject
    \/ \E rtype \in Types, data \in Inputs, context \in Contexts :
          Compare(rtype, data, context)

MapperSpec == Init /\ [][MapperNext]_vars

-----------------------------------------------------------------------------
(* The parameter dictionary: _paramdict.py 57-355 *)

MaxItems == 2

\* the key of the instance methods in the model
OpKeys == {"k"}

Values ==
    { PyNone, PyStr(<<"7">>), PyStr(<<"x">>), PyInt(5), PyFloat(15),
      PyBool(TRUE), PyList(<<>>) }

Defaults == { _missing, PyInt(3) }

Prepares == {"None", "str", "int", "float", "_prepare_bool"}

\* timedelta(seconds=90), 5, 1.5, float("inf")
DurationValues ==
    { PyNone, Py("timedelta", 90, <<>>, <<>>), PyInt(5), PyFloat(15),
      Py("float", 0, <<"i", "n", "f">>, <<>>) }

\* TimeUnit.SECONDS and TimeUnit.MINUTES in seconds
Units == {1, 60}

PathValues == { PyNone, PyStr(<<"a", "\\", "b">>), PyInt(5) }

ItemValues == { PyInt(5), PyStr(<<"x">>) }

RECURSIVE SeqsOfLen(_, _)
SeqsOfLen(S, n) ==
    IF n = 0 THEN { <<>> }
    ELSE { Append(q, x) : q \in SeqsOfLen(S, n - 1), x \in S }

\* a plain str handed over as the iterable: "ab"
StrAsList == PyStr(<<"a", "b">>)

ListValues ==
    {PyNone, StrAsList} \cup
    { PyList(q) : q \in UNION { SeqsOfLen(ItemValues, n) : n \in 0..MaxItems } }

Seps == { <<"|">>, <<",">> }

\* "0" * 40 and bytes(20)
Hash40 == PyStr([i \in 1..40 |-> "0"])

HashBytes == Py("bytes", 0, [i \in 1..40 |-> "0"], <<>>)

HashValues == { Hash40, HashBytes, PyStr(<<"x">>), PyInt(5) }

HashLists ==
    { PyNone, PyStr(<<"a", "l", "l">>), PyStr(<<"x">>), PyList(<<>>),
      PyList(<<Hash40>>), PyList(<<HashBytes, Hash40>>),
      PyList(<<PyStr(<<"x">>)>>) }

DigitChar(d) ==
    CASE d = 0 -> "0" [] d = 1 -> "1" [] d = 2 -> "2" [] d = 3 -> "3"
      [] d = 4 -> "4" [] d = 5 -> "5" [] d = 6 -> "6" [] d = 7 -> "7"
      [] d = 8 -> "8" [] d = 9 -> "9"

\* the decimal digits of a natural number
RECURSIVE decimal(_)
decimal(n) ==
    IF n < 10 THEN <<DigitChar(n)>>
    ELSE decimal(n \div 10) \o <<DigitChar(n % 10)>>

\* str(value) on the values of the model
str(v) ==
    CASE v.t = "str" -> v
      [] v.t = "int" ->
           PyStr(IF v.n < 0 THEN <<"-">> \o decimal(0 - v.n)
                 ELSE decimal(v.n))
      [] v.t = "float" ->
           PyStr(IF v.s # <<>> THEN v.s
                 ELSE decimal(v.n \div 10) \o <<".">> \o decimal(v.n % 10))
      [] v.t = "bool" ->
           PyStr(IF v.n = 1 THEN <<"T", "r", "u", "e">>
                 ELSE <<"F", "a", "l", "s", "e">>)
      [] v.t = "NoneType" -> PyStr(<<"N", "o", "n", "e">>)
      [] v.t = "list" /\ v.items = <<>> -> PyStr(<<"[", "]">>)
      [] OTHER -> PyStr(<<"<", v.t, ">">>)

\* isinstance(value, (str, int, float)); bool is a subclass of int
isinstance(v) == v.t \in {"str", "int", "float", "bool"}

\* bool(value)
truth(v) ==
    CASE v.t = "str" -> v.s # <<>>
      [] v.t \in {"int", "bool"} -> v.n # 0
      [] v.t = "float" -> v.n # 0 \/ v.s # <<>>
      [] v.t = "list" -> v.items # <<>>
      [] v.t = "NoneType" -> FALSE
      [] OTHER -> TRUE

Done(v) == [ok |-> TRUE, val |-> v, exc |-> "None"]

Raise(e) == [ok |-> FALSE, val |-> PyNone, exc |-> e]

\* _prepare_bool(), lines 355-359
_prepare_bool(b) ==
    PyStr(IF truth(b) THEN <<"t", "r", "u", "e">>
          ELSE <<"f", "a", "l", "s", "e">>)

\* _prepare_path(), lines 362-366: os.fsdecode(p).replace("\\", "/")
_prepare_path(p) ==
    IF p.t \in {"str", "bytes"}
    THEN Done(PyStr([i \in 1..Len(p.s) |->
                       IF p.s[i] = "\\" THEN "/" ELSE p.s[i]]))
    ELSE Raise("TypeError")

HexDigits == Digits \cup {"a", "b", "c", "d", "e", "f"}

\* get_info_hash(), bittorrent.py 10-24
get_info_hash(obj) ==
    IF obj.t \notin {"str", "bytes", "list"} THEN Raise("TypeError")
    ELSE IF obj.t = "list" THEN Raise("ValueError")
    ELSE IF Len(obj.s) # 40 /\ Len(obj.s) # 64 THEN Raise("ValueError")
    ELSE IF \E i \in 1..Len(obj.s) : obj.s[i] \notin HexDigits
         THEN Raise("ValueError")
    ELSE Done(PyStr(obj.s))

\* prepare(value), lines 146 and 264, for the callables the helpers pass
call(prepare, v) ==
    CASE prepare = "str" -> Done(str(v))
      [] prepare = "int" ->
           CASE v.t = "str" ->
                  IF int(v.s).ok THEN Done(PyInt(int(v.s).val))
                  ELSE Raise("ValueError")
             [] v.t \in {"int", "bool"} -> Done(PyInt(v.n))
             [] v.t = "float" ->
                  IF v.s # <<>> THEN Raise("OverflowError")
                  ELSE Done(PyInt(v.n \div 10))
             [] OTHER -> Raise("TypeError")
      [] prepare = "float" ->
           CASE v.t = "str" ->
                  IF int(v.s).ok THEN Done(PyFloat(10 * int(v.s).val))
                  ELSE Raise("ValueError")
             [] v.t \in {"int", "bool"} -> Done(PyFloat(10 * v.n))
             [] v.t = "float" -> Done(v)
             [] OTHER -> Raise("TypeError")
      [] prepare = "_prepare_bool" -> Done(_prepare_bool(v))
      [] prepare = "_prepare_path" -> _prepare_path(v)
      [] prepare = "get_info_hash" -> get_info_hash(v)

Stored(data) == [ok |-> TRUE, data |-> data, exc |-> "None"]

Failed(data, e) == [ok |-> FALSE, data |-> data, exc |-> e]

\* ParamDict._put(), lines 105-155
_put(data, key, value, optional, prepare, default) ==
    IF value.t = "NoneType" /\ default.t = "_missing"
    THEN IF optional THEN Stored(data) ELSE Failed(data, "TypeError")
    ELSE
      LET v == IF value.t = "NoneType" THEN default ELSE value
          p == IF prepare = "None" THEN Done(v) ELSE call(prepare, v)
      IN  IF ~p.ok THEN Failed(data, p.exc)
          ELSE IF ~isinstance(p.val) THEN Failed(data, "TypeError")
          ELSE Stored([data EXCEPT ![key] = str(p.val)])

\* ParamDict._put_duration(), lines 193-207
_put_duration(data, key, value, unit, optional) ==
    LET v == IF value.t = "timedelta"
             THEN PyFloat((10 * value.n) \div unit)
             ELSE value
    IN  IF v.t = "float" /\ v.s # <<>> THEN Failed(data, "ValueError")
        ELSE _put(data, key, v, optional, "int", _missing)

\* sep.join(items)
RECURSIVE join(_, _)
join(items, sep) ==
    IF items = <<>> THEN <<>>
    ELSE IF Len(items) = 1 THEN items[1]
    ELSE items[1] \o sep \o join(Tail(items), sep)

\* iter(value): the items of a list, the characters of a str
iterable(value) == value.t \in {"list", "str"}

iter(value) ==
    IF value.t = "list" THEN value.items
    ELSE [i \in 1..Len(value.s) |-> PyStr(<<value.s[i]>>)]

\* ParamDict._put_list(), lines 247-271
_put_list(data, key, value, sep, optional, prepare, nonempty) ==
    IF value.t = "NoneType"
    THEN IF optional THEN Stored(data) ELSE Failed(data, "TypeError")
    ELSE IF ~iterable(value) THEN Failed(data, "TypeError")
    ELSE
      LET its == iter(value)
          prepared == [i \in 1..Len(its) |->
                         IF prepare = "None" THEN Done(its[i])
                         ELSE call(prepare, its[i])]
          items == [i \in 1..Len(its) |-> str(prepared[i].val).s]
      IN  IF \E i \in 1..Len(its) : ~prepared[i].ok
          THEN Failed(data,
                      prepared[CHOOSE i \in 1..Len(its) :
                                 /\ ~prepared[i].ok
                                 /\ \A j \in 1..(i - 1) : prepared[j].ok].exc)
          ELSE IF nonempty /\ items = <<>> THEN Failed(data, "ValueError")
          ELSE Stored([data EXCEPT ![key] = PyStr(join(items, sep))])

\* the ParamDict after an operation that stored or raised
after(r) ==
    IF r.ok THEN [pc |-> "ready", data |-> r.data, exc |-> "None"]
    ELSE [pd EXCEPT !.exc = r.exc]

\* the items of the mappings handed to ParamDict()
Mappings ==
    { <<>> } \cup { << <<k, v>> >> : k \in OpKeys, v \in Values }
    \cup { << <<"k", PyInt(5)>>, <<"hash", v>> >> : v \in Values }

\* ParamDict.__init__ from the i-th item of a mapping on, lines 71-75
RECURSIVE put_all(_, _, _)
put_all(data, items, i) ==
    IF i > Len(items) THEN Stored(data)
    ELSE LET r == _put(data, items[i][1], items[i][2], FALSE, "None",
                       _missing)
         IN  IF r.ok THEN put_all(r.data, items, i + 1) ELSE r

nonParamVars ==
    <<retryVars, open_resps, clientVars, callVars, mp, libVars>>

NoItems == [k \in ParamKeys |-> Absent]

\* ParamDict.__init__(), lines 64-75: without data, from a mapping (put()
\* item by item), or as a copy of a ParamDict
ParamDict_init(src, items) ==
    /\ src = "ParamDict" => pd.pc = "ready"
    /\ src # "mapping" => items = <<>>
    /\ pd' = CASE src = "None" -> after(Stored(NoItems))
               [] src = "ParamDict" -> after(Stored(pd.data))
               [] src = "mapping" -> after(put_all(NoItems, items, 1))
    /\ UNCHANGED nonParamVars

\* ParamDict.__setitem__(), lines 78-79
__setitem__(key, value) ==
    /\ pd.pc = "ready"
    /\ pd' = after(Stored([pd.data EXCEPT ![key] = value]))
    /\ UNCHANGED nonParamVars

\* ParamDict.__delitem__(), lines 81-82
__delitem__(key) ==
    /\ pd.pc = "ready"
    /\ pd' = IF pd.data[key] = Absent THEN after(Failed(pd.data, "KeyError"))
             ELSE after(Stored([pd.data EXCEPT ![key] = Absent]))
    /\ UNCHANGED nonParamVars

\* ParamDict.put(), lines 157-167
put(key, value, optional, prepare, default) ==
    /\ pd.pc = "ready"
    /\ pd' = after(_put(pd.data, key, value, optional, prepare, default))
    /\ UNCHANGED nonParamVars

\* ParamDict.optional_str(), lines 169-170
optional_str(key, value) ==
    /\ pd.pc = "ready"
    /\ pd' = after(_put(pd.data, key, value, TRUE, "str", _missing))
    /\ UNCHANGED nonParamVars

\* ParamDict.required_str(), lines 172-173
required_str(key, value) ==
    /\ pd.pc = "ready"
    /\ pd' = after(_put(pd.data, key, value, FALSE, "str", _missing))
    /\ UNCHANGED nonParamVars

\* ParamDict.optional_int(), lines 175-176
optional_int(key, value) ==
    /\ pd.pc = "ready"
    /\ pd' = after(_put(pd.data, key, value, TRUE, "int", _missing))
    /\ UNCHANGED nonParamVars

\* ParamDict.required_int(), lines 178-179
required_int(key, value) ==
    /\ pd.pc = "ready"
    /\ pd' = after(_put(pd.data, key, value, FALSE, "int", _missing))
    /\ UNCHANGED nonParamVars

\* ParamDict.optional_float(), lines 181-182
optional_float(key, value) ==
    /\ pd.pc = "ready"
    /\ pd' = after(_put(pd.data, key, value, TRUE, "float", _missing))
    /\ UNCHANGED nonParamVars

\* ParamDict.required_float(), lines 184-185
required_float(key, value) ==
    /\ pd.pc = "ready"
    /\ pd' = after(_put(pd.data, key, value, FALSE, "float", _missing))
    /\ UNCHANGED nonParamVars

\* ParamDict.optional_bool(), lines 187-188
optional_bool(key, value) ==
    /\ pd.pc = "ready"
    /\ pd' = after(_put(pd.data, key, value, TRUE, "_prepare_bool", _missing))
    /\ UNCHANGED nonParamVars

\* ParamDict.required_bool(), lines 190-191
required_bool(key, value) ==
    /\ pd.pc = "ready"
    /\ pd' = after(_put(pd.data, key, value, FALSE, "_prepare_bool", _missing))
    /\ UNCHANGED nonParamVars

\* ParamDict.required_duration(), lines 209-217
required_duration(key, value, unit) ==
    /\ pd.pc = "ready"
    /\ pd' = after(_put_duration(pd.data, key, value, unit, FALSE))
    /\ UNCHANGED nonParamVars

\* ParamDict.optional_duration(), lines 219-227
optional_duration(key, value, unit) ==
    /\ pd.pc = "ready"
    /\ pd' = after(_put_duration(pd.data, key, value, unit, TRUE))
    /\ UNCHANGED nonParamVars

\* ParamDict.required_path(), lines 229-236
required_path(key, value) ==
    /\ pd.pc = "ready"
    /\ pd' = after(_put(pd.data, key, value, FALSE, "_prepare_path", _missing))
    /\ UNCHANGED nonParamVars

\* ParamDict.optional_path(), lines 238-245
optional_path(key, value) ==
    /\ pd.pc = "ready"
    /\ pd' = after(_put(pd.data, key, value, TRUE, "_prepare_path", _missing))
    /\ UNCHANGED nonParamVars

\* ParamDict.required_list(), lines 273-283
required_list(key, value, sep, prepare, nonempty) ==
    /\ pd.pc = "ready"
    /\ pd' = after(_put_list(pd.data, key, value, sep, FALSE, prepare,
                           nonempty))
    /\ UNCHANGED nonParamVars

\* ParamDict.optional_list(), lines 285-295
optional_list(key, value, sep, prepare, nonempty) ==
    /\ pd.pc = "ready"
    /\ pd' = after(_put_list(pd.data, key, value, sep, TRUE, prepare,
                           nonempty))
    /\ UNCHANGED nonParamVars

\* ParamDict.with_hash(), lines 297-310: a new ParamDict
with_hash(hash) ==
    /\ pd' = after(_put(NoItems, "hash", hash, FALSE, "get_info_hash",
                      _missing))
    /\ UNCHANGED nonParamVars

\* ParamDict.with_hashes(), lines 312-326: a new ParamDict
with_hashes(hashes, nonempty) ==
    /\ pd' = after(_put_list(NoItems, "hashes", hashes, <<"|">>, FALSE,
                           "get_info_hash", nonempty))
    /\ UNCHANGED nonParamVars

\* ParamDict.with_hashes_or_all(), lines 328-352: a new ParamDict
with_hashes_or_all(hashes, nonempty) ==
    /\ pd' = IF hashes.t = "str" /\ hashes.s = <<"a", "l", "l">>
             THEN after(_put(NoItems, "hashes", hashes, FALSE, "None",
                             _missing))
             ELSE after(_put_list(NoItems, "hashes", hashes, <<"|">>, FALSE,
                                  "get_info_hash", nonempty))
    /\ UNCHANGED nonParamVars

ParamNext ==
    \/ \E src \in {"None", "mapping", "ParamDict"}, items \in Mappings :
          ParamDict_init(src, items)
    \/ \E key \in OpKeys, value \in Values : __setitem__(key, value)
    \/ \E key \in ParamKeys : __delitem__(key)
    \/ \E key \in OpKeys, value \in Values, optional \in BOOLEAN,
          prepare \in Prepares, default \in Defaults :
          put(key, value, optional, prepare, default)
    \/ \E key \in OpKeys, value \in Values : optional_str(key, value)
    \/ \E key \in OpKeys, value \in Values : required_str(key, value)
    \/ \E key \in OpKeys, value \in Values : optional_int(key, value)
    \/ \E key \in OpKeys, value \in Values : required_int(key, value)
    \/ \E key \in OpKeys, value \in Values : optional_float(key, value)
    \/ \E key \in OpKeys, value \in Values : required_float(key, value)
    \/ \E key \in OpKeys, value \in Values : optional_bool(key, value)
    \/ \E key \in OpKeys, value \in Values : required_bool(key, value)
    \/ \E key \in OpKeys, value \in DurationValues, unit \in Units :
          required_duration(key, value, unit)
    \/ \E key \in OpKeys, value \in DurationValues, unit \in Units :
          optional_duration(key, value, unit)
    \/ \E key \in OpKeys, value \in PathValues : required_path(key, value)
    \/ \E key \in OpKeys, value \in PathValues : optional_path(key, value)
    \/ \E key \in OpKeys, value \in ListValues, sep \in Seps,
          prepare \in {"None", "int"}, nonempty \in BOOLEAN :
          required_list(key, value, sep, prepare, nonempty)
    \/ \E key \in OpKeys, value \in ListValues, sep \in Seps,
          prepare \in {"None", "int"}, nonempty \in BOOLEAN :
          optional_list(key, value, sep, prepare, nonempty)
    \/ \E hash \in HashValues : with_hash(hash)
    \/ \E hashes \in HashLists, nonempty \in BOOLEAN :
          with_hashes(hashes, nonempty)
    \/ \E hashes \in HashLists, nonempty \in BOOLEAN :
          with_hashes_or_all(hashes, nonempty)

ParamSpec == Init /\ [][ParamNext]_vars

-----------------------------------------------------------------------------
(* Versions: version.py 14-194 *)

MaxVersion == 1

\* the API versions compared, None among them
OptVersions ==
    {NoVersion} \cup
    { [none |-> FALSE, v |-> <<x, y, z>>] :
        x \in 0..MaxVersion, y \in 0..MaxVersion, z \in 0..MaxVersion }

\* a < b on tuples of three integers
tuple_lt(a, b) ==
    \/ a[1] < b[1]
    \/ a[1] = b[1] /\ a[2] < b[2]
    \/ a[1] = b[1] /\ a[2] = b[2] /\ a[3] < b[3]

\* compare() that takes None for the earliest version
compare_NoneEarliest(a, b) ==
    IF a.none THEN IF b.none THEN 0 ELSE 0 - 1
    ELSE IF b.none THEN 1
    ELSE IF a.v = b.v THEN 0
    ELSE IF tuple_lt(a.v, b.v) THEN 0 - 1
    ELSE 1

\* APIVersion.compare(), lines 165-194
compare(a, b) ==
    IF a.none THEN IF b.none THEN 0 ELSE 1
    ELSE IF b.none THEN 0 - 1
    ELSE IF a.v = b.v THEN 0
    ELSE IF tuple_lt(a.v, b.v) THEN 0 - 1
    ELSE 1

\* the numbers and the status strings handed to ClientVersion():
\* "", "rc1", "Beta", "alpha02", "rc1x", "bad"
VersionNumbers == {0, 4, 12}

StatusStrings ==
    { <<>>, <<"r", "c", "1">>, <<"B", "e", "t", "a">>,
      <<"a", "l", "p", "h", "a", "0", "2">>, <<"r", "c", "1", "x">>,
      <<"b", "a", "d">> }

UpperCase ==
    <<"A", "B", "C", "D", "E", "F", "G", "H", "I", "J", "K", "L", "M", "N",
      "O", "P", "Q", "R", "S", "T", "U", "V", "W", "X", "Y", "Z">>

LowerCase ==
    <<"a", "b", "c", "d", "e", "f", "g", "h", "i", "j", "k", "l", "m", "n",
      "o", "p", "q", "r", "s", "t", "u", "v", "w", "x", "y", "z">>

\* str.lower() and the case folding of re.IGNORECASE on ASCII text
lower(s) ==
    [i \in 1..Len(s) |->
       IF \E j \in 1..26 : UpperCase[j] = s[i]
       THEN LowerCase[CHOOSE j \in 1..26 : UpperCase[j] = s[i]]
       ELSE s[i]]

\* the text starts with the word, whatever the case
StartsWith(s, w) ==
    Len(s) >= Len(w) /\ lower(SubSeq(s, 1, Len(w))) = w

\* the number of digits a greedy \d* or \d+ takes at the start of the text
RECURSIVE LeadDigits(_)
LeadDigits(s) ==
    IF s # <<>> /\ s[1] \in Digits THEN 1 + LeadDigits(Tail(s)) ELSE 0

Drop(s, n) == SubSeq(s, n + 1, Len(s))

StatusWords == << <<"a", "l", "p", "h", "a">>, <<"b", "e", "t", "a">>,
                  <<"r", "c">> >>

\* the alternative of (alpha|beta|rc) that matches at the start, or 0
StatusWord(s) ==
    IF \E i \in 1..3 : StartsWith(s, StatusWords[i])
    THEN CHOOSE i \in 1..3 : StartsWith(s, StatusWords[i])
    ELSE 0

\* ClientVersion._parse_status(), lines 86-95: re.match() anchors the
\* pattern at the start only
_parse_status(status) ==
    IF status = <<>>
    THEN [ok |-> TRUE, st0 |-> <<"r", "e", "l", "e", "a", "s", "e">>,
          st1 |-> 0]
    ELSE IF StatusWord(status) = 0
    THEN [ok |-> FALSE, st0 |-> <<>>, st1 |-> 0]
    ELSE LET w == StatusWords[StatusWord(status)]
             rest == Drop(status, Len(w))
         IN  [ok |-> TRUE, st0 |-> w,
              st1 |-> DigitsValue(SubSeq(rest, 1, LeadDigits(rest)))]

\* ClientVersion.__init__(), lines 34-37
ClientVersion(major, minor, patch, build, status) ==
    LET st == _parse_status(status)
    IN  IF st.ok
        THEN [ok |-> TRUE,
              key |-> [major |-> major, minor |-> minor, patch |-> patch,
                       build |-> build, st0 |-> st.st0, st1 |-> st.st1],
              status |-> status, exc |-> "None"]
        ELSE [NoClientVersion EXCEPT !.exc = "ValueError"]

\* ClientVersion.__str__(), lines 77-84
__str__(self) ==
    decimal(self.key.major) \o <<".">> \o decimal(self.key.minor)
    \o <<".">> \o decimal(self.key.patch)
    \o (IF self.key.build # 0 THEN <<".">> \o decimal(self.key.build)
        ELSE <<>>)
    \o self.status

\* ClientVersion.__eq__(), lines 64-67
__eq__(self, other) == self.key = other.key

\* the value of a set of one element
Only(S) == CHOOSE x \in S : TRUE

NoMatch ==
    [ok |-> FALSE, g1 |-> <<>>, g2 |-> <<>>, g3 |-> <<>>, g4 |-> <<>>,
     g5 |-> <<>>]

\* ((?:alpha|beta|rc)\d*)?$ on the rest of the text
MatchStatus(g1, g2, g3, g4, r, w) ==
    IF \/ r = <<>>
       \/ /\ w # 0
          /\ Len(StatusWords[w]) + LeadDigits(Drop(r, Len(StatusWords[w])))
               = Len(r)
    THEN [ok |-> TRUE, g1 |-> g1, g2 |-> g2, g3 |-> g3, g4 |-> g4, g5 |-> r]
    ELSE NoMatch

\* (?:\.(\d+))? and what follows it; n is the number of digits after the dot
MatchBuild(g1, g2, g3, r, n) ==
    IF r # <<>> /\ r[1] = "." /\ n > 0
    THEN Only({ MatchStatus(g1, g2, g3, SubSeq(r, 2, 1 + n), rest,
                            StatusWord(rest)) :
                  rest \in {Drop(r, 1 + n)} })
    ELSE MatchStatus(g1, g2, g3, <<>>, r, StatusWord(r))

\* (?:\.(\d+)(?:\.(\d+))?)? and what follows it
MatchPatch(g1, g2, r, n) ==
    IF r # <<>> /\ r[1] = "." /\ n > 0
    THEN Only({ MatchBuild(g1, g2, SubSeq(r, 2, 1 + n), rest,
                           LeadDigits(Drop(rest, 1))) :
                  rest \in {Drop(r, 1 + n)} })
    ELSE MatchStatus(g1, g2, <<>>, <<>>, r, StatusWord(r))

\* \.(\d+) and what follows it
MatchMinor(g1, r, n) ==
    IF r # <<>> /\ r[1] = "." /\ n > 0
    THEN Only({ MatchPatch(g1, SubSeq(r, 2, 1 + n), rest,
                           LeadDigits(Drop(rest, 1))) :
                  rest \in {Drop(r, 1 + n)} })
    ELSE NoMatch

\* (\d+) and what follows it
MatchMajor(s, n) ==
    IF n > 0
    THEN Only({ MatchMinor(SubSeq(s, 1, n), rest,
                           LeadDigits(Drop(rest, 1))) :
                  rest \in {Drop(s, n)} })
    ELSE NoMatch

\* _VERSION_PATTERN.match(), lines 14-17: the groups of
\* ^v?(\d+)\.(\d+)(?:\.(\d+)(?:\.(\d+))?)?((?:alpha|beta|rc)\d*)?$
\* or no match
_VERSION_PATTERN(version) ==
    Only({ MatchMajor(s, LeadDigits(s)) :
             s \in {IF version # <<>> /\ lower(<<version[1]>>) = <<"v">>
                    THEN Tail(version) ELSE version} })

\* ClientVersion.parse(), lines 97-122
parse(version) ==
    Only({ IF ~match.ok THEN [NoClientVersion EXCEPT !.exc = "ValueError"]
           ELSE ClientVersion(DigitsValue(match.g1), DigitsValue(match.g2),
                              DigitsValue(match.g3), DigitsValue(match.g4),
                              match.g5) :
             match \in {_VERSION_PATTERN(version)} })

\* APIVersion.compare() on the pairs of three versions
APIVersion_compare(a, b, c) ==
    /\ ver.pc = "idle"
    /\ ver' = [VersionIdle EXCEPT !.pc = "compared",
                                  !.a = a, !.b = b, !.c = c,
                                  !.aa = compare(a, a), !.ab = compare(a, b),
                                  !.ba = compare(b, a), !.bc = compare(b, c),
                                  !.ac = compare(a, c)]
    /\ UNCHANGED <<retryVars, open_resps, clientVars, callVars, mp, pd, fb,
                   tor, cc>>

\* v = ClientVersion(major, minor, patch, build, status)
ClientVersion_init(major, minor, patch, build, status) ==
    /\ ver.pc = "idle"
    /\ ver' = [VersionIdle EXCEPT
                 !.pc = "made",
                 !.v = ClientVersion(major, minor, patch, build, status)]
    /\ UNCHANGED <<retryVars, open_resps, clientVars, callVars, mp, pd, fb,
                   tor, cc>>

\* text = str(v)
ClientVersion_str ==
    /\ ver.pc = "made"
    /\ ver.v.ok
    /\ ver' = [ver EXCEPT !.pc = "text", !.text = __str__(ver.v)]
    /\ UNCHANGED <<retryVars, open_resps, clientVars, callVars, mp, pd, fb,
                   tor, cc>>

\* ClientVersion.parse(text)
ClientVersion_parse ==
    /\ ver.pc = "text"
    /\ ver' = [ver EXCEPT !.pc = "parsed", !.parsed = parse(ver.text)]
    /\ UNCHANGED <<retryVars, open_resps, clientVars, callVars, mp, pd, fb,
                   tor, cc>>

VersionNext ==
    \/ \E a \in OptVersions, b \in OptVersions, c \in OptVersions :
          APIVersion_compare(a, b, c)
    \/ \E major \in VersionNumbers, minor \in VersionNumbers,
          patch \in VersionNumbers, build \in VersionNumbers,
          status \in StatusStrings :
          ClientVersion_init(major, minor, patch, build, status)
    \/ ClientVersion_str
    \/ ClientVersion_parse

VersionSpec == Init /\ [][VersionNext]_vars

-----------------------------------------------------------------------------
(* AddFormBuilder: api/torrents.py 1039-1393, _decorator.py 19-30 *)

MaxBuilders == 3

\* the api_version of the builders
BuilderVersions ==
    { NoVersion, [none |-> FALSE, v |-> <<2, 10, 4>>],
      [none |-> FALSE, v |-> <<2, 11, 0>>] }

Urls == { <<"magnet:1">>, <<"magnet:2">> }

FileData == { "data1", "data2" }

FileNames == { <<>>, <<"a.torrent">> }

CategoryValues == { PyNone, PyStr(<<"linux">>) }

\* tags: None, "ab", ["x", "y"], ["x,y"], [5]
TagValues ==
    { PyNone, StrAsList, PyList(<<PyStr(<<"x">>), PyStr(<<"y">>)>>),
      PyList(<<PyStr(<<"x", ",", "y">>)>>), PyList(<<PyInt(5)>>) }

OptBools == { PyNone, PyBool(TRUE), PyBool(FALSE) }

\* AddFormBuilder(api_version=...), the dataclass fields of lines 1075-1108:
\* urls and files name the lists of the default factories
NewBuilder(api_version, urls, files) ==
    [api_version |-> api_version, _urls |-> urls, _files |-> files,
     _category |-> PyNone, _tags |-> PyNone, _paused |-> PyNone,
     _stopped |-> PyNone]

\* AddFormBuilder.__deepcopy__(), lines 1110-1115: the copy comes last in
\* the builders and owns two new lists of the same items
__deepcopy__(h, self) ==
    [h EXCEPT
       !.lists = h.lists \o << h.lists[h.builders[self]._urls],
                               h.lists[h.builders[self]._files] >>,
       !.builders = Append(h.builders,
                           [h.builders[self] EXCEPT
                              !._urls = Len(h.lists) + 1,
                              !._files = Len(h.lists) + 2])]

\* a copy that shares the lists of the original
__copy___Shared(h, self) ==
    [h EXCEPT !.builders = Append(h.builders, h.builders[self])]

\* __copy__ = __deepcopy__, line 1117
__copy__(h, self) == __deepcopy__(h, self)

\* copy_self, _decorator.py 19-30: the wrapped function runs on
\* copy.copy(self) and its result is returned
copy_self(h, self) ==
    [__copy__(h, self) EXCEPT !.ret = Len(h.builders) + 1, !.exc = "None"]

\* list.append() on the list a builder refers to
append(h, list, item) == [h EXCEPT !.lists[list] = Append(@, item)]

\* the call raised: the copy is dropped
BuilderRaise(h, exc) == [h EXCEPT !.ret = 0, !.exc = exc]

\* "," in item
HasComma(item) == \E i \in 1..Len(item.s) : item.s[i] = ","

\* the part of tags() that can raise, lines 1200-1210
TagsError(tags) ==
    \/ tags.t = "str"
    \/ \E i \in 1..Len(tags.items) :
          tags.items[i].t # "str" \/ HasComma(tags.items[i])

builderFrame ==
    UNCHANGED <<retryVars, open_resps, clientVars, callVars, mp, pd, ver, tor,
                cc>>

\* AddFormBuilder(api_version=api_version)
AddFormBuilder_init(api_version) ==
    /\ fb.builders = <<>>
    /\ fb' = [BuilderIdle EXCEPT
                !.builders = <<NewBuilder(api_version, 1, 2)>>,
                !.lists = << <<>>, <<>> >>,
                !.ret = 1]
    /\ builderFrame

\* include_url(), lines 1119-1126
include_url(self, url) ==
    /\ Len(fb.builders) \in 1..(MaxBuilders - 1)
    /\ self \in 1..Len(fb.builders)
    /\ fb' = append(copy_self(fb, self),
                    copy_self(fb, self).builders[Len(fb.builders) + 1]._urls,
                    url)
    /\ builderFrame

\* include_file(), lines 1128-1138
include_file(self, data, filename) ==
    /\ Len(fb.builders) \in 1..(MaxBuilders - 1)
    /\ self \in 1..Len(fb.builders)
    /\ LET files == copy_self(fb, self).builders[Len(fb.builders) + 1]._files
           name == IF filename = <<>>
                   THEN decimal(Len(fb.lists[fb.builders[self]._files]) + 1)
                        \o <<".torrent">>
                   ELSE filename
       IN  fb' = append(copy_self(fb, self), files, <<data>> \o name)
    /\ builderFrame

\* category(), lines 1181-1185
category(self, value) ==
    /\ Len(fb.builders) \in 1..(MaxBuilders - 1)
    /\ self \in 1..Len(fb.builders)
    /\ fb' = [copy_self(fb, self) EXCEPT
                !.builders[Len(fb.builders) + 1]._category = value]
    /\ builderFrame

\* tags(), lines 1187-1213
tags(self, value) ==
    /\ Len(fb.builders) \in 1..(MaxBuilders - 1)
    /\ self \in 1..Len(fb.builders)
    /\ fb' = IF value.t = "NoneType"
             THEN [copy_self(fb, self) EXCEPT
                     !.builders[Len(fb.builders) + 1]._tags = PyNone]
             ELSE IF TagsError(value) THEN BuilderRaise(fb, "ValueError")
             ELSE [copy_self(fb, self) EXCEPT
                     !.builders[Len(fb.builders) + 1]._tags =
                        PyStr(join([i \in 1..Len(value.items) |->
                                      value.items[i].s], <<",">>))]
    /\ builderFrame

\* paused(), lines 1221-1236
paused(self, value) ==
    /\ Len(fb.builders) \in 1..(MaxBuilders - 1)
    /\ self \in 1..Len(fb.builders)
    /\ fb' = [copy_self(fb, self) EXCEPT
                !.builders[Len(fb.builders) + 1]._stopped =
                   IF compare(fb.builders[self].api_version,
                              [none |-> FALSE, v |-> <<2, 11, 0>>]) >= 0
                   THEN value ELSE @,
                !.builders[Len(fb.builders) + 1]._paused = value]
    /\ builderFrame

\* stopped(), lines 1238-1248
stopped(self, value) ==
    /\ Len(fb.builders) \in 1..(MaxBuilders - 1)
    /\ self \in 1..Len(fb.builders)
    /\ fb' = [copy_self(fb, self) EXCEPT
                !.builders[Len(fb.builders) + 1]._paused =
                   IF compare(fb.builders[self].api_version,
                              [none |-> FALSE, v |-> <<2, 11, 0>>]) < 0
                   THEN value ELSE @,
                !.builders[Len(fb.builders) + 1]._stopped = value]
    /\ builderFrame

BuilderNext ==
    \/ \E api_version \in BuilderVersions : AddFormBuilder_init(api_version)
    \/ \E self \in 1..MaxBuilders, url \in Urls : include_url(self, url)
    \/ \E self \in 1..MaxBuilders, data \in FileData, filename \in FileNames :
          include_file(self, data, filename)
    \/ \E self \in 1..MaxBuilders, value \in CategoryValues :
          category(self, value)
    \/ \E self \in 1..MaxBuilders, value \in TagValues : tags(self, value)
    \/ \E self \in 1..MaxBuilders, value \in OptBools : paused(self, value)
    \/ \E self \in 1..MaxBuilders, value \in OptBools : stopped(self, value)

BuilderSpec == Init /\ [][BuilderNext]_vars

-----------------------------------------------------------------------------
(* TorrentsAPI: api/torrents.py 97-156, 803-861 *)

MaxSets == 2

\* the hashes handed to TorrentsAPI: lists of info hashes, and "all"
All == PyStr(<<"a", "l", "l">>)

HashArgs ==
    { PyList(<<PyStr(InfoHash0)>>),
      PyList(<<PyStr(InfoHash0), PyStr(InfoHash1)>>), All }

\* the order in which the server lists its torrents
ServerOrder == <<InfoHash0, InfoHash1>>

\* the parts of the text between the "|"
RECURSIVE split(_)
split(s) ==
    IF \A i \in 1..Len(s) : s[i] # "|" THEN <<s>>
    ELSE <<SubSeq(s, 1, (CHOOSE i \in 1..Len(s) :
                           s[i] = "|" /\ \A j \in 1..(i - 1) : s[j] # "|") - 1)>>
         \o split(SubSeq(s, (CHOOSE i \in 1..Len(s) :
                               s[i] = "|" /\ \A j \in 1..(i - 1) : s[j] # "|")
                            + 1, Len(s)))

\* the torrents of the server a hashes parameter names: all of them for
\* "all", else those whose hash is among the parts
Selected(server, param) ==
    { h \in TorrentHashes :
        /\ server[h].present
        /\ \/ param = All.s
           \/ \E i \in 1..Len(split(param)) : split(param)[i] = h }

\* the answer to torrents/info: a TorrentInfo for each torrent selected
InfoResponse(server, param) ==
    LET picked == SelectSeq(ServerOrder,
                            LAMBDA h : h \in Selected(server, param))
    IN  [i \in 1..Len(picked) |->
           [hash |-> picked[i], seq_dl |-> server[picked[i]].seq_dl,
            f_l_piece_prio |-> server[picked[i]].f_l_piece_prio]]

\* the server after torrents/toggleSequentialDownload or
\* torrents/toggleFirstLastPiecePrio
Toggled(server, param, field) ==
    [h \in TorrentHashes |->
       IF h \in Selected(server, param)
       THEN [server[h] EXCEPT ![field] = ~@]
       ELSE server[h]]

\* the attribute of TorrentInfo a setter compares, lines 828 and 857
Field(op) ==
    IF op = "set_sequential_download" THEN "seq_dl" ELSE "f_l_piece_prio"

\* ParamDict.with_hashes(hashes) in info(), lines 133-136
InfoParams(hashes) ==
    _put_list(NoItems, "hashes", hashes, <<"|">>, FALSE, "get_info_hash",
              FALSE)

\* ParamDict.with_hashes_or_all(hashes) in the toggles, lines 805 and 838
ToggleParams(hashes) ==
    IF hashes.t = "str" /\ hashes.s = <<"a", "l", "l">>
    THEN _put(NoItems, "hashes", hashes, FALSE, "None", _missing)
    ELSE _put_list(NoItems, "hashes", hashes, <<"|">>, FALSE,
                   "get_info_hash", FALSE)

\* targets that name every torrent queried
Targets_Every(torrents, field, value) ==
    [i \in 1..Len(torrents) |-> PyStr(torrents[i].hash)]

\* targets, lines 825-829 and 854-858
Targets(torrents, field, value) ==
    LET differ == SelectSeq(torrents, LAMBDA info : info[field] # value)
    IN  [i \in 1..Len(differ) |-> PyStr(differ[i].hash)]

torrentsFrame ==
    UNCHANGED <<retryVars, open_resps, clientVars, callVars, mp, pd, ver, fb,
                cc>>

\* a call of op(hashes, value) by coroutine c up to the request of
\* torrents/info, lines 132-156
InfoCall(c, op, hashes, value) ==
    [NoTorrentsCall EXCEPT
       !.pc = IF InfoParams(hashes).ok THEN "info" ELSE "raised",
       !.op = op, !.hashes = hashes, !.value = value,
       !.request = IF InfoParams(hashes).ok
                   THEN InfoParams(hashes).data["hashes"].s ELSE <<>>,
       !.exc = InfoParams(hashes).exc,
       !.repeat = /\ tor.co[c].pc = "done"
                  /\ tor.co[c].op = op
                  /\ tor.co[c].hashes = hashes
                  /\ tor.co[c].value = value]

\* a torrent the server holds before any call: TorrentsAPI.add()
add(h, seq_dl, f_l_piece_prio) ==
    /\ tor.calls = 0
    /\ ~tor.server[h].present
    /\ tor' = [tor EXCEPT !.server[h] =
                 [present |-> TRUE, seq_dl |-> seq_dl,
                  f_l_piece_prio |-> f_l_piece_prio]]
    /\ torrentsFrame

\* TorrentsAPI.info(hashes=hashes), lines 97-156, up to the request
info(c, hashes) ==
    /\ tor.calls < MaxSets
    /\ tor.co[c].pc \in {"idle", "done", "raised"}
    /\ tor' = [tor EXCEPT !.co[c] = InfoCall(c, "info", hashes, FALSE),
                          !.calls = @ + 1]
    /\ torrentsFrame

\* the answer of the server to the info() of coroutine c
info_return(c) ==
    /\ tor.co[c].pc = "info"
    /\ tor.co[c].op = "info"
    /\ tor' = [tor EXCEPT
                 !.co[c].pc = "done",
                 !.co[c].result = InfoResponse(tor.server, tor.co[c].request)]
    /\ torrentsFrame

\* set_sequential_download(), lines 813-832, up to the request of info()
set_sequential_download(c, hashes, value) ==
    /\ tor.calls < MaxSets
    /\ tor.co[c].pc \in {"idle", "done", "raised"}
    /\ tor' = [tor EXCEPT
                 !.co[c] = InfoCall(c, "set_sequential_download", hashes,
                                    value),
                 !.calls = @ + 1]
    /\ torrentsFrame

\* set_first_last_piece_prio(), lines 842-861, up to the request of info()
set_first_last_piece_prio(c, hashes, value) ==
    /\ tor.calls < MaxSets
    /\ tor.co[c].pc \in {"idle", "done", "raised"}
    /\ tor' = [tor EXCEPT
                 !.co[c] = InfoCall(c, "set_first_last_piece_prio", hashes,
                                    value),
                 !.calls = @ + 1]
    /\ torrentsFrame

\* the answer to the info() of a setter and the rest of the setter up to
\* the request of the toggle, lines 823-832 and 852-861
set_targets(c) ==
    /\ tor.co[c].pc = "info"
    /\ tor.co[c].op # "info"
    /\ LET torrents == InfoResponse(tor.server, tor.co[c].request)
           targets == Targets(torrents, Field(tor.co[c].op), tor.co[c].value)
       IN  tor' = [tor EXCEPT
                     !.co[c].result = torrents,
                     !.co[c].targets = targets,
                     !.co[c].pc = IF targets = <<>> THEN "done" ELSE "toggle",
                     !.co[c].request =
                        IF targets = <<>> THEN @
                        ELSE ToggleParams(PyList(targets)).data["hashes"].s,
                     !.co[c].sent = IF targets = <<>> THEN 0 ELSE 1]
    /\ torrentsFrame

\* the server flips the flags of the torrents the toggle names and answers:
\* toggle_sequential_download(), toggle_first_last_piece_prio()
toggle_return(c) ==
    /\ tor.co[c].pc = "toggle"
    /\ tor' = [tor EXCEPT
                 !.server = Toggled(tor.server, tor.co[c].request,
                                    Field(tor.co[c].op)),
                 !.co[c].pc = "done"]
    /\ torrentsFrame

TorrentsNext ==
    \/ \E h \in TorrentHashes, seq_dl \in BOOLEAN, f_l_piece_prio \in BOOLEAN :
          add(h, seq_dl, f_l_piece_prio)
    \/ \E c \in Coroutines, hashes \in HashArgs : info(c, hashes)
    \/ \E c \in Coroutines : info_return(c)
    \/ \E c \in Coroutines, hashes \in HashArgs, value \in BOOLEAN :
          set_sequential_download(c, hashes, value)
    \/ \E c \in Coroutines, hashes \in HashArgs, value \in BOOLEAN :
          set_first_last_piece_prio(c, hashes, value)
    \/ \E c \in Coroutines : set_targets(c)
    \/ \E c \in Coroutines : toggle_return(c)

TorrentsSpec == Init /\ [][TorrentsNext]_vars

-----------------------------------------------------------------------------
(* create_client(): client.py 571-636 *)

Credentials == { PyNone, PyStr(<<"a", "d", "m", "i", "n">>) }

LogoutArgs == { PyNone, PyBool(TRUE), PyBool(FALSE) }

\* how auth.login() ends: it returns, or raises LoginError, another
\* APIError, or a connection error
LoginResults == { "None", "LoginError", "APIError", "ClientOSError" }

\* how the gather() of app.version() and app.webapi_version() ends
VersionResults == { "None", "ForbiddenError", "APIError", "ClientOSError" }

\* the texts of app/version: "v4.2.5", "4.4.0beta2", "unknown"
ClientVersionTexts ==
    { <<"v", "4", ".", "2", ".", "5">>,
      <<"4", ".", "4", ".", "0", "b", "e", "t", "a", "2">>,
      <<"u", "n", "k", "n", "o", "w", "n">> }

\* the texts of app/webapiVersion: "2.8.3", "2.2", "v2"
APIVersionTexts ==
    { <<"2", ".", "8", ".", "3">>, <<"2", ".", "2">>, <<"v", "2">> }

\* (?:\.(\d+))?$ of _API_VERSION_PATTERN
MatchRelease(g1, g2, r, n) ==
    IF r = <<>> THEN [ok |-> TRUE, v |-> <<DigitsValue(g1), DigitsValue(g2), 0>>]
    ELSE IF r[1] = "." /\ n > 0 /\ Len(r) = 1 + n
    THEN [ok |-> TRUE,
          v |-> <<DigitsValue(g1), DigitsValue(g2),
                  DigitsValue(SubSeq(r, 2, 1 + n))>>]
    ELSE [ok |-> FALSE, v |-> <<0, 0, 0>>]

\* \.(\d+) of _API_VERSION_PATTERN and what follows it
MatchAPIMinor(g1, r, n) ==
    IF r # <<>> /\ r[1] = "." /\ n > 0
    THEN Only({ MatchRelease(g1, SubSeq(r, 2, 1 + n), rest,
                             LeadDigits(Drop(rest, 1))) :
                  rest \in {Drop(r, 1 + n)} })
    ELSE [ok |-> FALSE, v |-> <<0, 0, 0>>]

\* APIVersion.parse(), version.py 142-160, with _API_VERSION_PATTERN,
\* lines 19-22: ^(\d+)\.(\d+)(?:\.(\d+))?$
APIVersion_parse(version) ==
    Only({ IF n > 0
           THEN Only({ MatchAPIMinor(SubSeq(version, 1, n), rest,
                                     LeadDigits(Drop(rest, 1))) :
                         rest \in {Drop(version, n)} })
           ELSE [ok |-> FALSE, v |-> <<0, 0, 0>>] :
             n \in {LeadDigits(version)} })

createFrame ==
    UNCHANGED <<retryVars, open_resps, clientVars, callVars, mp, pd, ver, fb,
                tor>>

\* client.close() that ends without raising: the session is closed if the
\* client owns it, and detached
Closed(c) ==
    [c EXCEPT !.http = "None",
              !.session = IF c.owner THEN "closed" ELSE c.session]

\* create_client(), lines 602-620: the arguments are checked, the client is
\* made (with a session of its own unless one is given) and login() awaited
create_client(username, password, logout_arg, session_given) ==
    /\ cc.create.pc = "idle"
    /\ cc' = [cc EXCEPT !.create =
                IF (username = PyNone) # (password = PyNone)
                THEN [NoCreate EXCEPT !.pc = "raised", !.exc = "TypeError"]
                ELSE [NoCreate EXCEPT
                        !.pc = IF username # PyNone THEN "login"
                               ELSE "versions",
                        !.made = TRUE,
                        !.http = "open",
                        !.owner = ~session_given,
                        !.login = username # PyNone,
                        !.logout = IF logout_arg = PyNone
                                   THEN username # PyNone
                                   ELSE truth(logout_arg)]]
    /\ createFrame

\* lines 617-623: login() is over; on LoginError close() is awaited, another
\* exception leaves create_client()
create_login(e) ==
    /\ cc.create.pc = "login"
    /\ cc' = [cc EXCEPT !.create =
                CASE e = "None" -> [@ EXCEPT !.pc = "versions"]
                  [] e = "LoginError" ->
                       IF @.logout THEN [@ EXCEPT !.pc = "close"]
                       ELSE [Closed(@) EXCEPT !.pc = "raised", !.exc = e]
                  [] OTHER -> [@ EXCEPT !.pc = "raised", !.exc = e]]
    /\ createFrame

\* lines 621-623: the logout of client.close() is over; close() ends, or
\* raises what the logout raised, and LoginError is raised again
create_close(e) ==
    /\ cc.create.pc = "close"
    /\ cc' = [cc EXCEPT !.create =
                IF e = "None" \/ Swallowed(e)
                THEN [Closed(@) EXCEPT !.pc = "raised", !.exc = "LoginError"]
                ELSE [@ EXCEPT !.pc = "raised", !.exc = e]]
    /\ createFrame

\* lines 625-636: the version queries are over; ForbiddenError is passed
\* over, the texts are parsed
create_versions(e, client_version, api_version) ==
    /\ cc.create.pc = "versions"
    /\ cc' = [cc EXCEPT !.create =
                CASE e = "ForbiddenError" -> [@ EXCEPT !.pc = "returned"]
                  [] e = "None" ->
                       IF ~parse(client_version).ok
                          \/ ~APIVersion_parse(api_version).ok
                       THEN [@ EXCEPT !.pc = "raised", !.exc = "ValueError",
                                      !.texts = <<client_version, api_version>>]
                       ELSE [@ EXCEPT
                               !.pc = "returned",
                               !.texts = <<client_version, api_version>>,
                               !.client_version = parse(client_version),
                               !.api_version =
                                  [none |-> FALSE,
                                   v |-> APIVersion_parse(api_version).v]]
                  [] OTHER -> [@ EXCEPT !.pc = "raised", !.exc = e]]
    /\ createFrame

CreateNext ==
    \/ \E username \in Credentials, password \in Credentials,
          logout_arg \in LogoutArgs, session_given \in BOOLEAN :
          create_client(username, password, logout_arg, session_given)
    \/ \E e \in LoginResults : create_login(e)
    \/ \E e \in LogoutResults : create_close(e)
    \/ \E e \in VersionResults, client_version \in ClientVersionTexts,
          api_version \in APIVersionTexts :
          create_versions(e, client_version, api_version)

CreateSpec == Init /\ [][CreateNext]_vars

-----------------------------------------------------------------------------
(* Vocabulary of the properties *)

Resolved == pc \in {"returned", "raised"}

Retriable == method \in {"GET", "head"}

\* the attempt budget the documentation promises
Budget == IF Retriable THEN arg_max_attempts ELSE 1

IsResponse(i) == i \in 1..Len(trace) /\ trace[i].kind = "response"

RetryAfterOf(i) == Header(trace[i].headers, "Retry-After")

HasRetryAfter(i) == IsResponse(i) /\ trace[i].headers # {}

Transient(i) ==
    \/ trace[i].kind = "disconnected"
    \/ IsResponse(i) /\ trace[i].status \in {429, 502, 503}

\* attempt i was followed by a sleep and another attempt was scheduled
Retried(i) == Len(sleeps) >= i

\* request() gave up on attempt i
GaveUpAt(i) == pc = "raised" /\ Len(trace) = i /\ Len(sleeps) < i

\* the status table of the documentation
StatusTable(status) ==
    CASE status = 400 -> "BadRequestError"
      [] status = 403 -> "ForbiddenError"
      [] status = 404 -> "NotFoundError"
      [] status = 409 -> "ConflictError"
      [] status = 415 -> "UnsupportedMediaTypeError"
      [] OTHER -> "APIError"

\* the Retry-After values of RetryAfterValues, read as seconds
AdvisedSeconds(v) ==
    CASE v = <<"0">> -> 0
      [] v = <<"1">> -> 1
      [] v = <<"6">> -> 6
      [] v = <<"-", "1">> -> -1

IsInteger(v) == v \in {<<"0">>, <<"1">>, <<"6">>, <<"-", "1">>}

\* the text of the bodies of Bodies; <<>> where the body is empty or is not
\* valid UTF-8
TextOf(b) ==
    CASE b = <<100, 117>> -> <<100, 117>>
      [] b = <<228, 184, 173>> -> <<20013>>
      [] OTHER -> <<>>

Served503(v) == Served("response", 503, {<<"Retry-After", v>>})

-----------------------------------------------------------------------------
(* C1 *)

\* C1: a request() call with max_attempts = N >= 1 never sends more than N
\* HTTP attempts (1 for a method other than GET/HEAD), and, every attempt
\* and sleep completing, it resolves: it returns or raises.
C1_BoundedAttempts ==
    /\ [](arg_max_attempts >= 1 => sent <= Budget /\ attempt_count <= Budget)
    /\ (pc # "idle" ~> Resolved)

C1_Witness ==
    /\ pc = "raised" /\ method = "GET" /\ arg_max_attempts = 3
    /\ sent = 3 /\ Len(sleeps) = 2

(* C2 *)

\* C2: for GET/HEAD with max_attempts > 1, a first response that is neither
\* 200 nor 429/502/503 ends the request: one attempt, no sleep, and the
\* typed error of that status raised.
C2_TerminalStatusEndsRequest ==
    (/\ Retriable /\ arg_max_attempts > 1
     /\ IsResponse(1) /\ trace[1].status \notin {200, 429, 502, 503})
    => /\ sent = 1 /\ sleeps = <<>> /\ Len(trace) = 1
       /\ pc \in {"resp_read", "raised"}
       /\ pc = "raised" =>
            /\ outcome.kind = "raise"
            /\ outcome.cls = StatusTable(trace[1].status)
            /\ outcome.status = trace[1].status

C2_Witness ==
    /\ method = "GET" /\ arg_max_attempts = 3 /\ pc = "raised"
    /\ IsResponse(1) /\ trace[1].status = 404 /\ sent = 1
    /\ outcome.cls = "NotFoundError"

(* C3 *)

\* C3: a request whose method is not GET or HEAD is never retried: one
\* attempt is sent whatever max_attempts >= 1 and whatever the failure.
C3_NonIdempotentNeverRetried ==
    (method = "POST" /\ arg_max_attempts >= 1 /\ pc # "idle")
    => sent = 1 /\ sleeps = <<>> /\ pc # "sleep" /\ Len(trace) <= 1

C3_Witness ==
    /\ method = "POST" /\ arg_max_attempts = 3 /\ pc = "raised"
    /\ IsResponse(1) /\ trace[1].status = 503 /\ sent = 1

(* C4 *)

C5_RetryAfterKeepsRetrying ==
    (/\ method = "GET" /\ arg_max_attempts = 3 /\ retry_delay = 1
     /\ Resolved /\ Len(trace) >= 1
     /\ \A i \in 1..Len(trace) :
          trace[i] = Served503(IF i = 2
                               THEN <<"b", "a", "d", "v", "a", "l", "u", "e">>
                               ELSE <<"1">>))
    => /\ sent = 3
       /\ outcome.kind = "raise" /\ outcome.cls = "APIError"
       /\ outcome.status = 503

(* C6 *)

\* C6: a GET with max_attempts = 3, the default retry_delay and the answers
\* 503 (Retry-After 1), 503 (Retry-After 1), 200 returns the 200 response
\* after exactly 3 attempts and 2 sleeps of at most 1 second each, and
\* nothing is sent or slept after the 200.
C6_SucceedsAfterTwoRetries ==
    (/\ method = "GET" /\ arg_max_attempts = 3 /\ retry_delay = 5000
     /\ Len(trace) >= 1
     /\ \A i \in 1..Len(trace) :
          /\ i <= 3
          /\ trace[i] = IF i = 3 THEN Served("response", 200, {})
                        ELSE Served503(<<"1">>))
    => /\ pc # "raised"
       /\ \A i \in 1..Len(sleeps) : sleeps[i] >= 0 /\ sleeps[i] <= 1000
       /\ Len(trace) = 3 =>
            /\ pc = "returned" /\ outcome.kind = "return"
            /\ outcome.status = 200
            /\ sent = 3 /\ Len(sleeps) = 2

C6_Witness ==
    /\ method = "GET" /\ arg_max_attempts = 3 /\ retry_delay = 5000
    /\ trace = <<Served503(<<"1">>), Served503(<<"1">>),
                 Served("response", 200, {})>>
    /\ pc = "returned" /\ sent = 3 /\ sleeps = <<1000, 1000>>

(* C7 *)

\* C7: a GET whose every attempt ends with the server disconnecting is
\* attempted exactly max_attempts times, and then the
\* ServerDisconnectedError itself is raised.
C7_DisconnectedRaisedAsIs ==
    (/\ method = "GET" /\ arg_max_attempts >= 1 /\ Len(trace) >= 1
     /\ \A i \in 1..Len(trace) : trace[i].kind = "disconnected")
    => /\ pc = "raised" <=> Len(trace) = arg_max_attempts
       /\ pc = "raised" =>
            /\ sent = arg_max_attempts
            /\ outcome.kind = "raise"
            /\ outcome.cls = "ServerDisconnectedError"
            /\ outcome.cause = NoExc

C7_Witness ==
    /\ method = "GET" /\ arg_max_attempts = 3 /\ pc = "raised" /\ sent = 3
    /\ \A i \in 1..3 : trace[i].kind = "disconnected"
    /\ outcome.cls = "ServerDisconnectedError"

(* C8 *)

ExhaustedOnTransient ==
    /\ Retriable /\ arg_max_attempts >= 1 /\ pc = "raised"
    /\ Len(trace) = arg_max_attempts
    /\ \A i \in 1..Len(trace) : Transient(i)

\* C8 as stated: when a transient error (disconnection or 429/502/503)
\* persists until the budget is exhausted, a typed API error is raised
\* whose cause is the original exception.
C8_Original ==
    ExhaustedOnTransient
    => /\ outcome.cls \in {"APIError", "BadRequestError", "ForbiddenError",
                           "NotFoundError", "ConflictError",
                           "UnsupportedMediaTypeError"}
       /\ outcome.cause # NoExc
       /\ outcome.cause = last_exc

\* C8 amended: when 429/502/503 persists until the budget is exhausted,
\* APIError is raised with the ClientResponseError of the last attempt as
\* its cause; when the disconnection persists, the ServerDisconnectedError
\* itself is raised, not wrapped.
C8_ExhaustedRetries ==
    ExhaustedOnTransient
    => IF IsResponse(Len(trace))
       THEN /\ outcome.cls = "APIError"
            /\ outcome.status = trace[Len(trace)].status
            /\ outcome.cause = [type |-> "ClientResponseError",
                                status |-> trace[Len(trace)].status]
       ELSE /\ outcome.cls = "ServerDisconnectedError"
            /\ outcome.cause = NoExc

C8_Witness ==
    /\ ExhaustedOnTransient /\ arg_max_attempts = 3
    /\ trace[1].kind = "disconnected" /\ trace[2].status = 429
    /\ trace[3].status = 502 /\ outcome.cls = "APIError"
    /\ outcome.cause.type = "ClientResponseError"

(* C9 *)

\* C9: when request() fails on a response with status s, the error is of
\* the kind the status table gives for s, its status is s, and its message
\* is the UTF-8 decoded body, or the reason phrase when the body is empty
\* or is not valid UTF-8.
C9_TypedErrorFromResponse ==
    (pc = "raised" /\ Len(trace) >= 1 /\ IsResponse(Len(trace)))
    => /\ outcome.kind = "raise"
       /\ outcome.cls = StatusTable(trace[Len(trace)].status)
       /\ outcome.status = trace[Len(trace)].status
       /\ outcome.message = IF TextOf(resp_body) # <<>>
                            THEN TextOf(resp_body)
                            ELSE Reason(trace[Len(trace)].status)

C9_Witness ==
    /\ pc = "raised" /\ IsResponse(1) /\ trace[1].status = 409
    /\ resp_body = <<228, 184, 173>> /\ outcome.cls = "ConflictError"
    /\ outcome.message = <<20013>>

(* C10 *)

\* C10: every sleep between two attempts lasts at most retry_delay and is
\* never negative, whatever Retry-After the server sends.
C10_SleepWithinRetryDelay ==
    \A i \in 1..Len(sleeps) : sleeps[i] >= 0 /\ sleeps[i] <= retry_delay

C10_Witness ==
    /\ Len(sleeps) = 2 /\ retry_delay = 5000
    /\ trace[1] = Served503(<<"0">>) /\ sleeps[1] = 0
    /\ trace[2] = Served503(<<"-", "1">>) /\ sleeps[2] = 5000

-----------------------------------------------------------------------------
(* C11 *)

C12_LogoutFailureSwallowed ==
    (logout_when_close /\ api = "close" /\ cpc \in {"returned", "raised"})
    => /\ cpc = "returned" /\ close_exc = "None"
       /\ http = "None"
       /\ http_owner => session = "closed"

(* C13 *)

\* C13: close() on a client that is already closed returns without
\* sending a logout request, without closing the session again and without
\* raising, and the client stays closed.
C13_CloseIdempotent ==
    [][(http = "None" /\ api' = "close" /\ calls' = calls + 1)
       => /\ cpc' = "returned" /\ close_exc' = "None"
          /\ http' = "None"
          /\ pc' = pc /\ sent' = sent /\ trace' = trace
          /\ session' = session /\ session_closes' = session_closes]_vars

C13_Witness ==
    /\ noop_closes = 1 /\ api = "close" /\ cpc = "returned" /\ http = "None"
    /\ http_owner /\ logout_when_close /\ session_closes = 1 /\ sent = 0

(* C14 *)

\* C14: a close() that returns has closed the session if and only if the
\* client created it; a borrowed session is only detached and stays open.
C14_SessionClosedIffOwned ==
    /\ cpc = "returned" => /\ http = "None"
                           /\ session = "closed" <=> http_owner
    /\ ~http_owner => session = "open" /\ session_closes = 0
    /\ session_closes <= 1

C14_Witness ==
    /\ cpc = "returned" /\ ~http_owner /\ http = "None"
    /\ session = "open" /\ session_closes = 0

(* C15 *)

\* C15: request_text()/request_json() leak no response: a non-200 response
\* is released before the next attempt, the sleep or the error, and when
\* the call has returned or raised no response is open, whether it ends
\* normally, with a decoding failure or cancelled.
C15_NoResponseLeaked ==
    api \in {"request_text", "request_json"}
    => /\ open_resps \in {0, 1}
       /\ pc \in {"idle", "http_request", "sleep", "raised"}
          => open_resps = 0
       /\ wpc \in {"returned", "raised"} => open_resps = 0

C15_Witness ==
    /\ api = "request_text" /\ wpc = "raised"
    /\ wexc = "UnicodeDecodeError" /\ Len(trace) = 2
    /\ trace[1].status = 503 /\ trace[2].status = 200 /\ open_resps = 0

-----------------------------------------------------------------------------
(* C16 .. C19: the object mapper *)

\* the fields of Item that have a converter, and what the converter gives
ConverterOf(f, x, context) ==
    IF f = <<"a">> THEN EnumConverter(x, context)
    ELSE DateTimeConverter(x, context)

HasConverter(rtype, f) == rtype = "Item" /\ f \in { <<"a">>, <<"b">> }

IsField(rtype, f) == rtype = "Item" /\ f \in { <<"a">>, <<"b">>, <<"c">> }

\* an unknown key that is no identifier or starts with an underscore
BadKey(rtype, f) ==
    /\ ~IsField(rtype, f)
    /\ f \in { <<"_", "p">>, <<"k", "-", "1">> }

\* the i-th item of the mapped input cannot be accepted
ItemFails(i) ==
    LET f == mp.data[i][1]
        x == mp.data[i][2]
    IN  \/ BadKey(mp.rtype, f)
        \/ HasConverter(mp.rtype, f) /\ ~ConverterOf(f, x, mp.context).ok

Created == mp.pc = "created"

\* C16: for every field f with converter C of the input, a mapped object
\* holds C(x, context) as f; if C raises on x, create_object raises
\* MapperError and produces no object, and the error names f and x (with the
\* converter's exception as cause) when no earlier item of the input fails.
C16_ConverterApplied ==
    Created =>
      \A i \in 1..Len(mp.data) :
        LET f == mp.data[i][1]
            x == mp.data[i][2]
            c == ConverterOf(f, x, mp.context)
        IN  HasConverter(mp.rtype, f) =>
              /\ mp.result.ok =>
                   /\ c.ok
                   /\ getattr(mp.result.obj, f) = [present |-> TRUE,
                                                   val |-> c.val]
              /\ ~c.ok =>
                   /\ ~mp.result.ok /\ mp.result.obj = NoObject
                   /\ mp.result.err.cls = "MapperError"
                   /\ (\A j \in 1..(i - 1) : ~ItemFails(j)) =>
                        mp.result.err =
                          MapperError("Cannot convert", f, x, c.exc)

C16_Witness ==
    /\ Created /\ mp.rtype = "Item" /\ mp.context.timezone = 1
    /\ mp.data = << <<(<<"b">>), 1>>, <<(<<"a">>), 2>> >>
    /\ ~mp.result.ok /\ mp.result.obj = NoObject
    /\ mp.result.err =
         MapperError("Cannot convert", <<"a">>, 2, "ValueError")

\* C17: a mapped object holds, for every field with a default (b: 2) or a
\* default factory (c: lambda: 2), exactly the default when the input lacks
\* the key, the converter not being applied to it, and the (converted)
\* input value, not the default, when the input has the key.
C17_DefaultApplied ==
    (Created /\ mp.result.ok /\ mp.rtype = "Item") =>
      /\ \A p, q \in mp.result.obj.attrs : p[1] = q[1] => p = q
      /\ \A f \in { <<"b">>, <<"c">> } :
           LET v == getattr(mp.result.obj, f)
           IN  /\ v.present
               /\ (\A i \in 1..Len(mp.data) : mp.data[i][1] # f)
                  => v.val = 2
               /\ \A i \in 1..Len(mp.data) :
                    mp.data[i][1] = f =>
                      v.val = IF f = <<"b">>
                              THEN 1000 + 10 * mp.data[i][2]
                                   + mp.context.timezone
                              ELSE mp.data[i][2]

C17_Witness ==
    /\ Created /\ mp.rtype = "Item" /\ mp.result.ok
    /\ mp.data = << <<(<<"c">>), 0>> >>
    /\ mp.result.obj.attrs = { <<(<<"b">>), 2>>, <<(<<"c">>), 0>> }

\* C18: create_object never fails because of unknown keys that are
\* identifiers not starting with an underscore, the object holding each
\* with its raw value, and always raises MapperError when the input has
\* an unknown key that starts with an underscore or is no identifier.
C18_UnknownKeysTolerated ==
    Created =>
      /\ (\E i \in 1..Len(mp.data) : BadKey(mp.rtype, mp.data[i][1]))
         => ~mp.result.ok /\ mp.result.err.cls = "MapperError"
      /\ (\A i \in 1..Len(mp.data) : ~ItemFails(i)) => mp.result.ok
      /\ mp.result.ok =>
           \A i \in 1..Len(mp.data) :
             ~IsField(mp.rtype, mp.data[i][1]) =>
               getattr(mp.result.obj, mp.data[i][1])
                 = [present |-> TRUE, val |-> mp.data[i][2]]

\* C19: comparing two mapped objects of the same declarative type gives
\* True or False and never raises; it gives True exactly when, for every
\* field that takes part in comparisons (a and b of Item), both objects
\* lack it or both hold equal values; field c (compare=False) and the
\* unknown extra attributes are not looked at.
C19_EqualityByCompareFields ==
    (mp.pc = "compared" /\ mp.first.type = mp.other.type) =>
      /\ mp.eq \in {"True", "False"}
      /\ mp.eq = "True" <=>
           \A f \in { g \in { <<"a">>, <<"b">> } : IsField(mp.first.type, g) } :
             \/ /\ f \notin Keys(mp.first.attrs)
                /\ f \notin Keys(mp.other.attrs)
             \/ \E p \in mp.first.attrs :
                  p[1] = f /\ p \in mp.other.attrs

C19_Witness ==
    /\ mp.pc = "compared" /\ mp.first.type = "Item" /\ mp.eq = "True"
    /\ mp.first.attrs = { <<(<<"b">>), 2>>, <<(<<"c">>), 1>>, <<(<<"x">>), 0>> }
    /\ mp.other.attrs = { <<(<<"b">>), 2>>, <<(<<"c">>), 2>> }

-----------------------------------------------------------------------------
(* C20 *)

\* C20: after any sequence of ParamDict operations (construction, put, the
\* typed helpers, the list helpers, the hash factories, item assignment and
\* deletion), every value stored in the ParamDict is a string.
C20_EveryValueIsString ==
    \A key \in ParamKeys :
      pd.data[key] # Absent => pd.data[key].t = "str"

(* C21 *)

\* C21: required_list() and optional_list() called with a plain str where
\* an iterable of items is expected raise and store nothing: the str is not
\* split into its characters.
C21_ListHelpersRejectStr ==
    [][\A key \in OpKeys, sep \in Seps, prepare \in {"None", "int"},
          nonempty \in BOOLEAN :
          (\/ required_list(key, StrAsList, sep, prepare, nonempty)
           \/ optional_list(key, StrAsList, sep, prepare, nonempty))
          => pd'.exc # "None" /\ pd'.data = pd.data]_vars

-----------------------------------------------------------------------------
(* C22, C23: versions *)

Sign(n) == IF n > 0 THEN 1 ELSE IF n < 0 THEN 0 - 1 ELSE 0

\* C22: APIVersion.compare over optional versions, None being the latest,
\* is a consistent ordering: compare(v, v) = 0 also for None, compare(None,
\* v) > 0 and compare(v, None) < 0 for a concrete v, the sign of compare(a,
\* b) is the opposite of the sign of compare(b, a), and compare(a, b) <= 0
\* with compare(b, c) <= 0 gives compare(a, c) <= 0.
C22_CompareIsOrdering ==
    ver.pc = "compared" =>
      /\ ver.aa = 0
      /\ (ver.a.none /\ ~ver.b.none) => ver.ab > 0
      /\ (~ver.a.none /\ ver.b.none) => ver.ab < 0
      /\ Sign(ver.ab) = 0 - Sign(ver.ba)
      /\ (ver.ab <= 0 /\ ver.bc <= 0) => ver.ac <= 0

C22_Witness ==
    /\ ver.pc = "compared"
    /\ ver.a = [none |-> FALSE, v |-> <<0, 1, 1>>]
    /\ ver.b = [none |-> FALSE, v |-> <<1, 0, 0>>]
    /\ ver.c = NoVersion
    /\ ver.ab < 0 /\ ver.bc < 0 /\ ver.ac < 0 /\ ver.ba > 0

\* C23: for every ClientVersion v that the constructor accepts,
\* ClientVersion.parse(str(v)) succeeds and equals v.
C23_ParseStrRoundTrip ==
    ver.pc = "parsed" => ver.parsed.ok /\ __eq__(ver.parsed, ver.v)

-----------------------------------------------------------------------------
(* C24: AddFormBuilder *)

\* the builder has the fields and the items of its lists it had before the
\* step
SameBuilder(i) ==
    /\ fb'.builders[i] = fb.builders[i]
    /\ fb'.lists[fb.builders[i]._urls] = fb.lists[fb.builders[i]._urls]
    /\ fb'.lists[fb.builders[i]._files] = fb.lists[fb.builders[i]._files]

\* C24: a setter of AddFormBuilder returns a builder that is a new object
\* and leaves every builder that existed, the original among them, with the
\* same fields and the same items in its list of URLs and its list of files.
C24_SettersCopy ==
    [][ fb.builders # <<>> =>
          /\ \A i \in 1..Len(fb.builders) : SameBuilder(i)
          /\ fb'.exc = "None" => /\ fb'.ret = Len(fb.builders) + 1
                                 /\ Len(fb'.builders) = Len(fb.builders) + 1
      ]_vars

\* a builder with two URLs and a file made from one with one URL, made from
\* one with none
C24_Witness ==
    /\ Len(fb.builders) = 3
    /\ fb.lists[fb.builders[1]._urls] = <<>>
    /\ Len(fb.lists[fb.builders[2]._urls]) = 1
    /\ Len(fb.lists[fb.builders[3]._urls]) = 1
    /\ Len(fb.lists[fb.builders[3]._files]) = 1
    /\ fb.lists[fb.builders[2]._files] = <<>>

-----------------------------------------------------------------------------
(* C25, C26, C30: TorrentsAPI *)

IsSetter(op) ==
    op \in {"set_sequential_download", "set_first_last_piece_prio"}

\* no other coroutine has called TorrentsAPI
Alone(c) == \A d \in Coroutines \ {c} : tor.co[d].pc = "idle"

\* the torrents of the server the hashes of the call of c name
Named(c) ==
    { h \in TorrentHashes :
        /\ tor.server[h].present
        /\ \/ tor.co[c].hashes = All
           \/ /\ tor.co[c].hashes.t = "list"
              /\ \E i \in 1..Len(tor.co[c].hashes.items) :
                    tor.co[c].hashes.items[i].s = h }

\* every torrent the call of c names has the flag of the call at the value
\* of the call
FlagsSet(c) ==
    \A h \in Named(c) : tor.server[h][Field(tor.co[c].op)] = tor.co[c].value

C25_Returned ==
    \A c \in Coroutines :
       Alone(c) /\ IsSetter(tor.co[c].op) /\ tor.co[c].pc = "done"
          => FlagsSet(c)

C25_NoToggleOnRepeat ==
    \A c \in Coroutines :
       Alone(c) /\ IsSetter(tor.co[c].op) /\ tor.co[c].repeat
          => tor.co[c].pc # "toggle" /\ tor.co[c].sent = 0

C25_RepeatStep ==
    \A c \in Coroutines :
       Alone(c)' /\ IsSetter(tor.co[c].op)' /\ tor.co[c].repeat'
          => tor.server' = tor.server

\* C25: with no other coroutine calling, once set_sequential_download(hashes,
\* value) or set_first_last_piece_prio(hashes, value) has returned, every
\* torrent named has seq_dl, or f_l_piece_prio, equal to value; the same call
\* made again sends no toggle request and leaves the torrents of the server
\* as they are.
C25_SetIsIdempotent ==
    /\ [](C25_Returned /\ C25_NoToggleOnRepeat)
    /\ [][C25_RepeatStep]_vars

\* the second set_sequential_download([h0, h1], TRUE) in a row has returned
\* and both torrents are on the server
C25_Witness ==
    /\ Alone(1)
    /\ tor.co[1].op = "set_sequential_download"
    /\ tor.co[1].repeat
    /\ tor.co[1].pc = "done"
    /\ tor.co[1].value
    /\ Named(1) = TorrentHashes

\* C26: a call of info(), set_sequential_download() or
\* set_first_last_piece_prio() with hashes="all" does not raise and its
\* request of torrents/info carries hashes=all.
C26_AllAccepted ==
    \A c \in Coroutines :
       tor.co[c].hashes = All /\ tor.co[c].pc # "idle"
          => /\ tor.co[c].pc # "raised"
             /\ tor.co[c].pc = "info" => tor.co[c].request = All.s

\* C30: when two coroutines have called the same setter with the same hashes
\* and the same value and both calls have returned, every torrent named has
\* the flag equal to value.
C30_ConcurrentSet ==
    \A c \in Coroutines, d \in Coroutines :
       /\ c # d
       /\ IsSetter(tor.co[c].op)
       /\ tor.co[c].pc = "done" /\ tor.co[d].pc = "done"
       /\ tor.co[c].op = tor.co[d].op
       /\ tor.co[c].hashes = tor.co[d].hashes
       /\ tor.co[c].value = tor.co[d].value
       => FlagsSet(c)

-----------------------------------------------------------------------------
(* C27, C28: close() next to other tasks *)

\* C27: a request() that resumes from its retry sleep on a client closed in
\* the meantime sends no further HTTP request and raises the RuntimeError of
\* a closed client.
C27_ResumedOnClosedClient ==
    [][ pc = "sleep" /\ http = "None" /\ pc' # "sleep" =>
          /\ sent' = sent
          /\ pc' = "raised"
          /\ outcome'.cls = "RuntimeError" ]_vars

\* C28: a close() task raises nothing but what its own logout raised, and
\* once both tasks are over the client is closed and the session it owns is
\* closed.
C28_ConcurrentClose ==
    /\ \A k \in Closers :
          cc.close[k].pc = "raised" => cc.close[k].exc = "APIError"
    /\ (\A k \in Closers : cc.close[k].pc = "returned")
          => http = "None" /\ (http_owner => session = "closed")

-----------------------------------------------------------------------------
(* C29: create_client() *)

\* C29: when create_client() has raised after making its client, the client
\* is closed and the session it made for itself is closed.
C29_RaisedMeansClosed ==
    cc.create.pc = "raised" /\ cc.create.made
       => /\ cc.create.http = "None"
          /\ cc.create.owner => cc.create.session = "closed"

====
